---------------------------- MODULE Spec2Model ----------------------------
(***************************************************************************)
(* Verification model of claude-unified-history-mcp.                       *)
(*                                                                         *)
(* SessionSpec : the remote API client (CloudSession, auth/session.ts):    *)
(*               the available flag, the cached orgId, the rate limiter    *)
(*               and the retry loop of fetchApi, with several calls in     *)
(*               progress on one instance (each await is a step).          *)
(* ToolsSpec   : the orchestration layer (tools/list-projects.ts,          *)
(*               tools/list-sessions.ts, tools/search.ts) over the sources *)
(*               list, with the per-source promises settling in any order, *)
(*               and tools/get-conversation.ts trying the sources in turn. *)
(* LocalSpec   : the local source (sources/claude-code.ts) reading a       *)
(*               projects directory.                                       *)
(* SearchSpec  : the local and the remote source on larger directories     *)
(*               and listings, the local search one step per await.        *)
(* DateSpec    : normalizeDate (utils/date.ts).                            *)
(***************************************************************************)
EXTENDS Integers, Sequences, FiniteSets, TLC

VARIABLES
    available,        \* CloudSession.available
    orgId,            \* CloudSession.orgId
    sinceRequest,     \* Date.now() - CloudSession.lastRequestTime, in ms, saturating
    calls,            \* the fetchApi / getOrgId calls in progress on the instance
    sources,          \* the sources array handed to the tool functions
    store,            \* what each source holds (its matching items, in its own order)
    op,               \* the orchestrated tool call in progress
    settled,          \* per source of the fan-out: the state of its promise
    gc,               \* the orchestrated getConversation call in progress
    projectsDir,      \* the projects directory the local source reads
    local,            \* the last call on the local source and what it returned
    request,          \* the tool call the server's handler is answering
    dateCall          \* the system zone and the last call of normalizeDate

sessionVars == <<available, orgId, sinceRequest, calls>>
toolVars == <<sources, store, op, settled, gc, request>>
localVars == <<projectsDir, local>>
dateVars == <<dateCall>>
vars == <<available, orgId, sinceRequest, calls,
          sources, store, op, settled, gc, projectsDir, local, request, dateCall>>

Null == "null"

Min(a, b) == IF a <= b THEN a ELSE b
Max(a, b) == IF a >= b THEN a ELSE b

(***************************************************************************)
(* CloudSession (auth/session.ts).                                         *)
(*                                                                         *)
(* Time is kept as differences: sinceRequest is Date.now() minus           *)
(* lastRequestTime (the code only compares it with REQUEST_DELAY_MS, so it *)
(* saturates there), and a sleeping call holds the ms left on its timer.   *)
(* lastRequestTime starts at 0, far in the past of any Date.now().         *)
(***************************************************************************)
REQUEST_DELAY_MS == 100

\* The granularity of the clock inside the rate limiter's window.
TickMs == 50

\* Two calls can be in progress on the instance at once.
Calls == {"c1", "c2"}

\* The call whose events are recorded (a history of the model, not of the program).
traced == "c1"

OrgIds == {"orgA", "orgB"}
\* A parsed 200 body: a JSON array (of organization uuids on the organizations endpoint).
Bodies == {<<>>, <<"orgA">>, <<"orgB", "orgA">>}

\* What one `await fetch(...)` / `await response.json()` can produce.
HttpOutcomes == [status : {200, 401, 403, 429, 500}, error : {"none"}]
ThrownOutcomes == [status : {0}, error : {"TimeoutError", "TypeError"}]
    \cup [status : {200}, error : {"SyntaxError"}]
Outcomes == HttpOutcomes \cup ThrownOutcomes

NullResult == [isNull |-> TRUE, body |-> <<>>]
Payload(b) == [isNull |-> FALSE, body |-> b]

IdleCall == [fn |-> "none", pc |-> "idle", attempt |-> 0, sleep |-> 0,
             result |-> NullResult, ret |-> Null, startAvail |-> TRUE, log |-> <<>>]

Ev(kind, status, error, ms) == [kind |-> kind, status |-> status, error |-> error, ms |-> ms]
ReqEv == Ev("req", 0, "none", 0)
RespEv(o) == Ev("resp", o.status, o.error, 0)
BackoffEv(ms) == Ev("backoff", 0, "none", ms)

\* The events of a call are recorded for the traced call only.
Logged(c, log, e) == IF c = traced THEN Append(log, e) ELSE log

\* Math.pow(2, attempt + 1) * 1000
Backoff(attempt) == (2 ^ (attempt + 1)) * 1000

\* The slot of call c is free: no call, or one that has returned to its caller.
Finished(c) ==
    \/ calls[c].pc \in {"idle", "done"}
    \/ calls[c].pc = "returned" /\ calls[c].fn = "fetchApi"

\* Mutant: the availability guard at the entry of fetchApi is missing.
EarlyReturn_missing == FALSE

\* line 347: if (!this.available) return null
EarlyReturn == ~available

\* line 354: if (elapsed < REQUEST_DELAY_MS) await sleep(REQUEST_DELAY_MS - elapsed)
TooSoon(elapsed) == elapsed < REQUEST_DELAY_MS

\* Mutant: only 401 is taken for an authorization failure.
IsAuthFailure_only401(o) == o.error = "none" /\ o.status = 401

\* line 374: response.status === 401 || response.status === 403
IsAuthFailure(o) == o.error = "none" /\ o.status \in {401, 403}

\* line 380: response.status === 429
IsRateLimited(o) == o.error = "none" /\ o.status = 429

\* line 387: !response.ok
IsNotOk(o) == o.error = "none" /\ ~(o.status >= 200 /\ o.status <= 299)

\* Mutant: a timeout is retried like any other transport error.
IsTimeout_retried(o) == FALSE

\* line 395: lastError.name === 'TimeoutError' || lastError.name === 'AbortError'
IsTimeout(o) == o.error \in {"TimeoutError", "AbortError"}

\* Mutant: an off-by-one in the loop condition.
LoopContinues_offByOne(attempt) == attempt <= 3

\* line 362: the loop condition attempt < 3
LoopContinues(attempt) == attempt < 3

\* line 400: if (attempt < 2) sleep before the retry
SleepsAfterError(attempt) == attempt < 2

\* Mutant: the flag is toggled instead of cleared.
markUnavailable_toggle == available' = ~available

\* Mutant: the demotion is left out.
markUnavailable_skipped == available' = available

\* lines 312-314
markUnavailable == available' = FALSE

\* fetchApi returns res to its caller. What a finished call returned is kept for
\* the traced call; getOrgId needs it in any case.
Return(c, rec, res) ==
    calls' = [calls EXCEPT ![c] =
        IF c = traced \/ rec.fn = "getOrgId"
        THEN [rec EXCEPT !.pc = "returned", !.result = res, !.sleep = 0]
        ELSE IdleCall]

\* lines 364-365: this.lastRequestTime = Date.now(); fetch(url, ...)
IssueRequest(c, rec) ==
    /\ calls' = [calls EXCEPT ![c] =
            [rec EXCEPT !.pc = "fetching", !.sleep = 0, !.log = Logged(c, rec.log, ReqEv)]]
    /\ sinceRequest' = 0

\* Mutant: running out of attempts demotes the client.
ReturnExhausted_demote(c, rec) ==
    /\ calls' = [calls EXCEPT ![c] =
            IF c = traced \/ rec.fn = "getOrgId"
            THEN [rec EXCEPT !.pc = "returned", !.result = NullResult, !.sleep = 0]
            ELSE IdleCall]
    /\ available' = FALSE
    /\ UNCHANGED orgId

\* lines 407-408: the loop ran out of attempts
ReturnExhausted(c, rec) ==
    /\ Return(c, rec, NullResult)
    /\ UNCHANGED <<available, orgId>>

\* lines 346-365: fetchApi from its entry to its first suspension
FetchApiEnter(c, rec) ==
    IF EarlyReturn
    THEN /\ Return(c, rec, NullResult)
         /\ UNCHANGED sinceRequest
    ELSE LET elapsed == sinceRequest IN
         IF TooSoon(elapsed)
         THEN /\ calls' = [calls EXCEPT ![c] =
                    [rec EXCEPT !.pc = "ratewait",
                                !.sleep = REQUEST_DELAY_MS - elapsed]]
              /\ UNCHANGED sinceRequest
         ELSE IssueRequest(c, rec)

NewCall(c, fn) ==
    [IdleCall EXCEPT !.fn = fn, !.pc = "entered",
                     !.startAvail = IF c = traced THEN available ELSE TRUE]

\* A caller invokes session.fetchApi(path) for a conversations path.
FetchApi(c) ==
    /\ UNCHANGED <<toolVars, localVars, dateVars>>
    /\ Finished(c)
    /\ FetchApiEnter(c, NewCall(c, "fetchApi"))
    /\ UNCHANGED <<available, orgId>>

\* lines 319-325: getOrgId up to its await of fetchApi('/api/organizations')
GetOrgId(c) ==
    /\ UNCHANGED <<toolVars, localVars, dateVars>>
    /\ Finished(c)
    /\ IF orgId # Null
       THEN /\ calls' = [calls EXCEPT ![c] =
                    IF c = traced
                    THEN [NewCall(c, "getOrgId") EXCEPT !.pc = "done", !.ret = orgId]
                    ELSE IdleCall]
            /\ UNCHANGED sinceRequest
       ELSE FetchApiEnter(c, NewCall(c, "getOrgId"))
    /\ UNCHANGED <<available, orgId>>

GetOrgIdDone(c, ret) ==
    calls' = [calls EXCEPT ![c] =
        IF c = traced THEN [@ EXCEPT !.pc = "done", !.ret = ret] ELSE IdleCall]

\* lines 326-335: getOrgId after fetchApi returned
GetOrgIdResume(c) ==
    /\ UNCHANGED <<toolVars, localVars, dateVars>>
    /\ calls[c].pc = "returned"
    /\ calls[c].fn = "getOrgId"
    /\ LET orgs == calls[c].result IN
       IF ~orgs.isNull /\ Len(orgs.body) > 0
       THEN /\ orgId' = orgs.body[1]
            /\ GetOrgIdDone(c, orgs.body[1])
            /\ UNCHANGED available
       ELSE /\ markUnavailable
            /\ GetOrgIdDone(c, Null)
            /\ UNCHANGED orgId
    /\ UNCHANGED sinceRequest

\* The operations of the remote source (ClaudeApiSource) reach the network only
\* through session.getOrgId() and session.fetchApi(); each starts with the same
\* two awaits and the same two early returns.
RemoteOps == {"listProjects", "listSessions", "getConversation", "search"}

\* `return []` of listProjects, listSessions and search; `return null` of getConversation
RemoteEmpty(fn) == IF fn = "getConversation" THEN Null ELSE <<>>

\* const orgId = await getOrgId(); if (!orgId) return empty;
\* const fetched = await fetchApi(...); if (!fetched) return empty; ...
RemoteReturns(fn, org, fetched) ==
    IF org = Null THEN RemoteEmpty(fn)
    ELSE IF fetched.isNull THEN RemoteEmpty(fn)
    ELSE [from |-> fetched.body]

\* An explicit demotion by a holder of the session.
MarkUnavailable ==
    /\ UNCHANGED <<toolVars, localVars, dateVars>>
    /\ markUnavailable
    /\ UNCHANGED <<orgId, sinceRequest, calls>>

\* line 355: the rate-limit sleep is over; the loop starts with attempt = 0
RateWaitDone(c) ==
    /\ UNCHANGED <<toolVars, localVars, dateVars>>
    /\ calls[c].pc = "ratewait"
    /\ calls[c].sleep = 0
    /\ IssueRequest(c, [calls[c] EXCEPT !.attempt = 0])
    /\ UNCHANGED <<available, orgId>>

\* lines 381-383 / 401-402: await the backoff timer
StartBackoff(c, rec) ==
    calls' = [calls EXCEPT ![c] =
        [rec EXCEPT !.pc = "backoff",
                    !.sleep = Backoff(rec.attempt),
                    !.log = Logged(c, rec.log, BackoffEv(Backoff(rec.attempt)))]]

\* lines 365-404: the awaited fetch (and response.json()) settles with outcome o
Respond(c, o, b) ==
    /\ UNCHANGED <<toolVars, localVars, dateVars>>
    /\ calls[c].pc = "fetching"
    /\ LET rec == [calls[c] EXCEPT !.log = Logged(c, @, RespEv(o))] IN
       IF IsAuthFailure(o)
       THEN /\ markUnavailable
            /\ Return(c, rec, NullResult)
            /\ UNCHANGED <<orgId, sinceRequest>>
       ELSE IF IsRateLimited(o)
       THEN /\ StartBackoff(c, rec)
            /\ UNCHANGED <<available, orgId, sinceRequest>>
       ELSE IF IsNotOk(o)
       THEN /\ Return(c, rec, NullResult)
            /\ UNCHANGED <<available, orgId, sinceRequest>>
       ELSE IF o.error = "none"
       THEN /\ Return(c, rec, Payload(b))
            /\ UNCHANGED <<available, orgId, sinceRequest>>
       ELSE IF IsTimeout(o)
       THEN /\ Return(c, rec, NullResult)
            /\ UNCHANGED <<available, orgId, sinceRequest>>
       ELSE IF SleepsAfterError(rec.attempt)
       THEN /\ StartBackoff(c, rec)
            /\ UNCHANGED <<available, orgId, sinceRequest>>
       ELSE IF LoopContinues(rec.attempt + 1)
       THEN /\ IssueRequest(c, [rec EXCEPT !.attempt = @ + 1])
            /\ UNCHANGED <<available, orgId>>
       ELSE /\ ReturnExhausted(c, [rec EXCEPT !.attempt = @ + 1])
            /\ UNCHANGED sinceRequest

\* lines 383-384 / 402-404 then 362: the backoff is over, attempt++, test the loop
BackoffDone(c) ==
    /\ UNCHANGED <<toolVars, localVars, dateVars>>
    /\ calls[c].pc = "backoff"
    /\ calls[c].sleep = 0
    /\ LET rec == [calls[c] EXCEPT !.attempt = @ + 1] IN
       IF LoopContinues(rec.attempt)
       THEN /\ IssueRequest(c, rec)
            /\ UNCHANGED <<available, orgId>>
       ELSE /\ ReturnExhausted(c, rec)
            /\ UNCHANGED sinceRequest

Sleeping(c) == calls[c].pc \in {"ratewait", "backoff"} /\ calls[c].sleep > 0

\* d ms pass. A timer fires no earlier than its delay: the backoff timers, whose
\* delays are whole seconds, are advanced in whole seconds (the rest is lateness).
Pass(d) ==
    /\ sinceRequest' = Min(sinceRequest + d, REQUEST_DELAY_MS)
    /\ calls' = [c \in Calls |->
            [calls[c] EXCEPT !.sleep =
                IF calls[c].pc = "backoff"
                THEN Max(@ - (d \div 1000) * 1000, 0)
                ELSE Max(@ - d, 0)]]
    /\ UNCHANGED <<available, orgId>>

\* Time passes up to the earliest pending timer.
TickToWake ==
    /\ UNCHANGED <<toolVars, localVars, dateVars>>
    /\ \E c \in Calls : Sleeping(c)
    /\ LET d == CHOOSE d \in {calls[c].sleep : c \in {x \in Calls : Sleeping(x)}} :
                    \A c \in Calls : Sleeping(c) => d <= calls[c].sleep
       IN Pass(d)

\* Time passes in small steps while the rate limiter's window is open.
TickStep ==
    /\ UNCHANGED <<toolVars, localVars, dateVars>>
    /\ sinceRequest < REQUEST_DELAY_MS
    /\ Pass(TickMs)

SessionInit ==
    /\ available = TRUE
    /\ orgId \in {Null} \cup OrgIds
    /\ sinceRequest = REQUEST_DELAY_MS
    /\ calls = [c \in Calls |-> IdleCall]
    /\ sources = <<>>
    /\ store = <<>>
    /\ op = <<>>
    /\ settled = <<>>
    /\ gc = <<>>
    /\ request = <<>>
    /\ dateCall = <<>>
    /\ projectsDir = <<>>
    /\ local = <<>>

SessionNext ==
    \/ \E c \in Calls : FetchApi(c)
    \/ \E c \in Calls : GetOrgId(c)
    \/ \E c \in Calls : GetOrgIdResume(c)
    \/ MarkUnavailable
    \/ \E c \in Calls : RateWaitDone(c)
    \/ \E c \in Calls, o \in Outcomes, b \in Bodies : Respond(c, o, b)
    \/ \E c \in Calls : BackoffDone(c)
    \/ TickToWake
    \/ TickStep

SessionSpec ==
    /\ SessionInit
    /\ [][SessionNext]_vars

(***************************************************************************)
(* The orchestration layer: tools/list-projects.ts, tools/list-sessions.ts *)
(* and tools/search.ts, over sources that implement ConversationSource.    *)
(*                                                                         *)
(* An item is a project, a session or a search result: its source tag, its *)
(* id and the instant it is ordered by (lastActivity, updatedAt or         *)
(* timestamp). store[s] is what source s holds that matches the request,   *)
(* in the order of its own traversal.                                      *)
(***************************************************************************)
SourceTypes == {"code", "cloud"}
SourceFilters == SourceTypes \cup {"all"}

\* limit and offset range over 0..MaxLimit.
MaxLimit == 2

\* The sources arrays the tool functions are called with (index.ts builds the
\* first two).
SourceLists == {<<"code">>, <<"code", "cloud">>, <<"cloud", "code">>, <<"cloud">>}

Item(s, id, at) == [source |-> s, id |-> id, at |-> at]
CodeItems == <<Item("code", "a", 3), Item("code", "b", 1), Item("code", "c", 2)>>
CloudItems == <<Item("cloud", "x", 2), Item("cloud", "y", 4)>>

RECURSIVE Pick(_, _, _)
\* The subsequence of seq at the indices in S, from index i on.
Pick(seq, S, i) ==
    IF i > Len(seq) THEN <<>>
    ELSE (IF i \in S THEN <<seq[i]>> ELSE <<>>) \o Pick(seq, S, i + 1)

SubSeqs(seq) == {Pick(seq, S, 1) : S \in SUBSET (1..Len(seq))}

Range(seq) == {seq[i] : i \in 1..Len(seq)}

\* Array.prototype.slice(from, to) for 0 <= from <= to
Slice(seq, from, to) == SubSeq(seq, from + 1, Min(to, Len(seq)))

\* Mutant: the comparator's operands are swapped (ascending order).
ComesBefore_ascending(a, b) == a.at <= b.at

\* The comparator (a, b) => b.at - a.at: a stays before b (the sort is stable).
ComesBefore(a, b) == a.at >= b.at

RECURSIVE InsertSorted(_, _)
InsertSorted(x, sorted) ==
    IF sorted = <<>> THEN <<x>>
    ELSE IF ComesBefore(Head(sorted), x)
         THEN <<Head(sorted)>> \o InsertSorted(x, Tail(sorted))
         ELSE <<x>> \o sorted

RECURSIVE SortFrom(_, _)
SortFrom(rest, acc) ==
    IF rest = <<>> THEN acc
    ELSE SortFrom(Tail(rest), InsertSorted(Head(rest), acc))

\* Array.prototype.sort with the descending comparator (stable)
SortDesc(seq) == SortFrom(seq, <<>>)

RECURSIVE Flatten(_)
\* allItems.push(...arr) for each arr in turn
Flatten(arrays) ==
    IF arrays = <<>> THEN <<>> ELSE Head(arrays) \o Flatten(Tail(arrays))

(***************************************************************************)
(* The local source: sources/claude-code.ts over <claudeDir>/projects.      *)
(*                                                                         *)
(* fs.exists says whether the projects directory can be read; fs.dirs are  *)
(* its entries in readdir order. An entry has a name (a sequence of        *)
(* characters), a kind ("dir", or "file" for something that is not a       *)
(* directory) and its files; a file has an id (its name without the        *)
(* extension), jsonl (whether the name ends with .jsonl) and its lines. A  *)
(* line is blank, malformed or a JSON record with a timestamp and a type.  *)
(* Instants are small positive integers.                                   *)
(***************************************************************************)
\* The time value of an Invalid Date. It is outside the instants and every
\* comparison with it is made through the operators below, never through <.
NaN == -1

Line(kind, ts, type) == [kind |-> kind, ts |-> ts, type |-> type]
BlankLine == Line("blank", NaN, "none")
BadLine == Line("bad", NaN, "none")
Rec(ts, type) == Line("json", ts, type)

\* A date string: the wall-clock digits it shows and what follows them:
\* "ms" for .000Z (what toISOString prints), "z" for Z, "plus" for +01:00.
DateStr(wall, sfx) == [wall |-> wall, sfx |-> sfx]
\* startDate / endDate not given (undefined)
NoDate == DateStr(0, "none")
\* projectPath not given (undefined or the empty string)
NoPath == <<>>

\* The instant a date string denotes (+01:00 is one unit ahead of UTC).
InstantOf(d) == IF d.sfx = "plus" THEN d.wall - 1 ELSE d.wall

\* Date.prototype.toISOString of a valid date
toISOString(t) == DateStr(t, "ms")

\* The character that follows the wall-clock digits: '+' < '.' < 'Z'.
SfxCode(sfx) == CASE sfx = "plus" -> 43 [] sfx = "ms" -> 46 [] OTHER -> 90

\* Mutant: date strings are compared as the instants they denote.
StrLess_byInstant(a, b) == InstantOf(a) < InstantOf(b)

\* a < b on strings: the digits first, then the characters after them.
StrLess(a, b) ==
    \/ a.wall < b.wall
    \/ a.wall = b.wall /\ SfxCode(a.sfx) < SfxCode(b.sfx)

\* projectDir.replace(/-/g, '/').replace(/^\//, '')
decodeProjectPath(projectDir) ==
    LET slashed == [i \in 1..Len(projectDir) |->
                        IF projectDir[i] = "-" THEN "/" ELSE projectDir[i]]
    IN  IF slashed # <<>> /\ slashed[1] = "/" THEN Tail(slashed) ELSE slashed

\* parseJsonlFile without date bounds: blank and malformed lines are skipped.
parseJsonlFile(lines) ==
    LET IsRecord(l) == l.kind = "json" IN SelectSeq(lines, IsRecord)

\* Math.min(...ts) / Math.max(...ts) over time values: NaN when one of them is
\* NaN, and +-Infinity (an Invalid Date again) when there is none.
MathMin(ts) ==
    IF ts = <<>> \/ NaN \in Range(ts) THEN NaN
    ELSE CHOOSE m \in Range(ts) : \A t \in Range(ts) : m <= t
MathMax(ts) ==
    IF ts = <<>> \/ NaN \in Range(ts) THEN NaN
    ELSE CHOOSE m \in Range(ts) : \A t \in Range(ts) : m >= t

TimesOf(entries) == [i \in 1..Len(entries) |-> entries[i].ts]

\* projectId not given (undefined or the empty string)
NoProjectId == <<>>

\* `code_${decodedPath}`
CodeProjectId(decodedPath) == <<"code_">> \o decodedPath

\* 'cloud_conversations', the one virtual project of the remote source
CloudProjectId == <<"cloud_conversations">>

LocalSession(id, decodedPath, entries, count) ==
    [id |-> id, source |-> "code", projectId |-> CodeProjectId(decodedPath),
     projectName |-> decodedPath,
     createdAt |-> MathMin(TimesOf(entries)), updatedAt |-> MathMax(TimesOf(entries)),
     messageCount |-> count]

Orderings(seq) ==
    {[i \in 1..Len(seq) |-> seq[p[i]]] :
        p \in {q \in [1..Len(seq) -> 1..Len(seq)] : \A i, j \in 1..Len(seq) : q[i] = q[j] => i = j}}

RECURSIVE InsertSession(_, _)
\* x goes after the sessions that are not older than it (a stable sort).
InsertSession(x, sorted) ==
    IF sorted = <<>> THEN <<x>>
    ELSE IF Head(sorted).updatedAt >= x.updatedAt
         THEN <<Head(sorted)>> \o InsertSession(x, Tail(sorted))
         ELSE <<x>> \o sorted

RECURSIVE SortSessionsFrom(_, _)
SortSessionsFrom(rest, acc) ==
    IF rest = <<>> THEN acc
    ELSE SortSessionsFrom(Tail(rest), InsertSession(Head(rest), acc))

\* Mutant: the messages are kept in the order of the records.
InsertMessage_unsorted(x, sorted) == Append(sorted, x)

RECURSIVE InsertMessage(_, _)
\* x goes after the messages that are not newer than it (a stable sort).
InsertMessage(x, sorted) ==
    IF sorted = <<>> THEN <<x>>
    ELSE IF Head(sorted).ts <= x.ts
         THEN <<Head(sorted)>> \o InsertMessage(x, Tail(sorted))
         ELSE <<x>> \o sorted

RECURSIVE SortMessagesFrom(_, _)
SortMessagesFrom(rest, acc) ==
    IF rest = <<>> THEN acc
    ELSE SortMessagesFrom(Tail(rest), InsertMessage(Head(rest), acc))

\* sessions.sort((a, b) => b.updatedAt.getTime() - a.updatedAt.getTime()): the
\* sorted array, or any order when the comparator meets a NaN (the order is
\* then implementation-defined).
SortSessions(sessions) ==
    IF \E i \in 1..Len(sessions) : sessions[i].updatedAt = NaN
    THEN Orderings(sessions)
    ELSE {SortSessionsFrom(sessions, <<>>)}

NoScan == [sessions |-> <<>>, thrown |-> FALSE]

\* await fs.stat(path) of an entry of the projects directory throws (a dangling
\* link, an entry removed since the readdir, a permission error).
StatThrows(d) == d.kind = "broken"

RECURSIVE ScanFiles(_, _, _, _)
\* The loop over the files of one project directory in listSessions.
ScanFiles(acc, decodedPath, files, args) ==
    IF files = <<>> \/ acc.thrown THEN acc
    ELSE LET file == Head(files)
             entries == parseJsonlFile(file.lines)
             sessionStart == MathMin(TimesOf(entries))
             sessionEnd == MathMax(TimesOf(entries))
             next ==
                IF ~file.jsonl \/ entries = <<>> THEN acc
                ELSE IF args.startDate # NoDate /\ sessionEnd = NaN
                     THEN [acc EXCEPT !.thrown = TRUE]
                ELSE IF args.startDate # NoDate
                        /\ StrLess(toISOString(sessionEnd), args.startDate)
                     THEN acc
                ELSE IF args.endDate # NoDate /\ sessionStart = NaN
                     THEN [acc EXCEPT !.thrown = TRUE]
                ELSE IF args.endDate # NoDate
                        /\ StrLess(args.endDate, toISOString(sessionStart))
                     THEN acc
                ELSE [acc EXCEPT !.sessions = Append(@,
                        LocalSession(file.id, decodedPath, entries, Len(entries)))]
         IN  ScanFiles(next, decodedPath, Tail(files), args)

RECURSIVE ScanDirs(_, _, _)
\* The loop over the entries of the projects directory in listSessions.
ScanDirs(acc, dirs, args) ==
    IF dirs = <<>> \/ acc.thrown THEN acc
    ELSE LET d == Head(dirs)
             decodedPath == decodeProjectPath(d.name)
             next ==
                IF args.projectPath # NoPath /\ decodedPath # args.projectPath THEN acc
                ELSE IF StatThrows(d) THEN [acc EXCEPT !.thrown = TRUE]
                ELSE IF d.kind # "dir" THEN acc
                ELSE ScanFiles(acc, decodedPath, d.files, args)
         IN  ScanDirs(next, Tail(dirs), args)

\* ClaudeCodeSource.listSessions: the arrays it can return. args.startDate and
\* args.endDate are the dates after normalizeDate.
LocalListSessions(fs, args) ==
    LET scanned == IF fs.exists THEN ScanDirs(NoScan, fs.dirs, args) ELSE NoScan
    IN  {Slice(sorted, args.offset, args.offset + args.limit) :
            sorted \in SortSessions(scanned.sessions)}

\* e.type === 'result' ? 'system' : e.type
RoleOf(type) == IF type = "result" THEN "system" ELSE type

DefaultTypes == {"user", "assistant"}

\* messages.sort((a, b) => a.timestamp.getTime() - b.timestamp.getTime())
SortMessages(messages) ==
    IF \E i \in 1..Len(messages) : messages[i].ts = NaN
    THEN Orderings(messages)
    ELSE {SortMessagesFrom(messages, <<>>)}

\* The conversations getConversation can build from one session file.
LocalConversation(file, decodedPath, args) ==
    LET allowedTypes == IF args.messageTypes # {} THEN args.messageTypes ELSE DefaultTypes
        entries == parseJsonlFile(file.lines)
        Allowed(e) == RoleOf(e.type) \in allowedTypes \/ e.type \in allowedTypes
        kept == SelectSeq(entries, Allowed)
        messages == [i \in 1..Len(kept) |-> [ts |-> kept[i].ts, role |-> RoleOf(kept[i].type)]]
    IN  {[id |-> args.sessionId, source |-> "code",
          session |-> LocalSession(args.sessionId, decodedPath, entries, Len(messages)),
          messages |-> Slice(sorted, args.offset, args.offset + args.limit)] :
            sorted \in SortMessages(messages)}

\* getConversation's null
NoConversation == [id |-> Null]

RECURSIVE FindConversation(_, _)
\* The loop over the entries of the projects directory in getConversation:
\* the first one that holds <sessionId>.jsonl wins.
FindConversation(dirs, args) ==
    IF dirs = <<>> THEN {NoConversation}
    ELSE LET d == Head(dirs)
             found == {i \in 1..Len(d.files) :
                          d.files[i].jsonl /\ d.files[i].id = args.sessionId}
         IN  IF d.kind # "dir" \/ found = {}
             THEN FindConversation(Tail(dirs), args)
             ELSE LocalConversation(d.files[CHOOSE i \in found : TRUE],
                                    decodeProjectPath(d.name), args)

\* ClaudeCodeSource.getConversation: the values it can return (it never rejects:
\* a failing readdir is caught and gives null).
LocalGetConversation(fs, args) ==
    IF fs.exists THEN FindConversation(fs.dirs, args) ELSE {NoConversation}

\* A message of a remote conversation detail (CloudMessage): sender and
\* created_at.
CloudMessage(sender, ts) == [sender |-> sender, ts |-> ts]

\* What fetchApi gave for /chat_conversations/<sessionId>: a detail, or null.
CloudDetail(chat_messages) == [found |-> TRUE, chat_messages |-> chat_messages]
NoDetail == [found |-> FALSE, chat_messages |-> <<>>]

\* msg.sender === 'human' ? 'user' : 'assistant'
CloudRoleOf(sender) == IF sender = "human" THEN "user" ELSE "assistant"

\* ClaudeApiSource.getConversation once the detail request has returned.
CloudGetConversation(detail, args) ==
    LET allowedTypes == IF args.messageTypes # {} THEN args.messageTypes ELSE DefaultTypes
        Allowed(m) == CloudRoleOf(m.sender) \in allowedTypes
        kept == SelectSeq(detail.chat_messages, Allowed)
        allMessages == [i \in 1..Len(kept) |->
                           [ts |-> kept[i].ts, role |-> CloudRoleOf(kept[i].sender)]]
    IN  IF ~detail.found THEN {NoConversation}
        ELSE {[id |-> args.sessionId, source |-> "cloud",
               session |-> [id |-> args.sessionId, source |-> "cloud",
                            projectId |-> CloudProjectId, projectName |-> <<>>, createdAt |-> NaN, updatedAt |-> NaN,
                            messageCount |-> Len(allMessages)],
               messages |-> Slice(sorted, args.offset, args.offset + args.limit)] :
                 sorted \in SortMessages(allMessages)}

\* Mutant: the remote source reports itself available whatever its client says.
IsAvailable_always(s) == TRUE

\* ClaudeCodeSource.isAvailable / ClaudeApiSource.isAvailable
IsAvailable(s) == IF s = "code" THEN TRUE ELSE available

\* Mutant: the sources are selected by type only.
ActiveSources_typeOnly(filter) ==
    LET Selected(s) == filter = "all" \/ s = filter
    IN  SelectSeq(sources, Selected)

\* sources.filter(s => s.isAvailable() && (sourceFilter === 'all' || s.type === sourceFilter))
ActiveSources(filter) ==
    LET Selected(s) == IsAvailable(s) /\ (filter = "all" \/ s = filter)
    IN  SelectSeq(sources, Selected)

\* What a source answers (when it does not raise).
\* listProjects: its projects, as traversed.
SourceListProjects(s) == store[s]
\* listSessions: sessions.sort(newest first); sessions.slice(offset, offset + limit)
SourceListSessions(s, limit, offset) == Slice(SortDesc(store[s]), offset, offset + limit)
\* ClaudeCodeSource.search: the matches of one batch of files are collected,
\* then results.sort(newest first); results.slice(0, limit)
CodeSearch(limit) == Slice(SortDesc(store["code"]), 0, limit)
\* ClaudeApiSource.search: matches are collected in the order of the listing
\* until there are limit of them, then sorted newest first.
CloudSearch(limit) == Slice(SortDesc(Slice(store["cloud"], 0, limit)), 0, limit)
SourceSearch(s, limit) == IF s = "code" THEN CodeSearch(limit) ELSE CloudSearch(limit)

\* Mutant: listSessions asks each source for limit sessions only.
SourceAnswer_limitOnly(o, s) ==
    IF o.name = "listProjects" THEN SourceListProjects(s)
    ELSE IF o.name = "listSessions" THEN SourceListSessions(s, o.limit, 0)
    ELSE SourceSearch(s, o.limit)

\* The options each tool function passes to the sources.
SourceAnswer(o, s) ==
    IF o.name = "listProjects" THEN SourceListProjects(s)
    ELSE IF o.name = "listSessions" THEN SourceListSessions(s, o.limit + o.offset, 0)
    ELSE SourceSearch(s, o.limit)

NoResponse == [rejected |-> FALSE, items |-> <<>>, total_count |-> 0,
               has_more |-> FALSE, sources_searched |-> <<>>]

IdleOp == [name |-> "none", pc |-> "idle", filter |-> "all", limit |-> 0, offset |-> 0,
           active |-> <<>>, availAt |-> [s \in SourceTypes |-> TRUE],
           resp |-> NoResponse]

Pending == [state |-> "pending", items |-> <<>>]

\* The projects directories getConversation is tried on: unreadable, without
\* the session, and holding it.
SessionId == "s1"
FsMissing == [exists |-> FALSE, dirs |-> <<>>]
FsAbsent == [exists |-> TRUE,
             dirs |-> <<[name |-> <<"-", "a">>, kind |-> "dir",
                         files |-> <<[id |-> "s2", jsonl |-> TRUE,
                                      lines |-> <<Rec(1, "user")>>]>>]>>]
FsPresent == [exists |-> TRUE,
              dirs |-> <<[name |-> <<"-", "a">>, kind |-> "dir",
                          files |-> <<[id |-> "s1", jsonl |-> TRUE,
                                       lines |-> <<Rec(2, "user"), Rec(1, "assistant")>>]>>]>>]
GetFs == {FsMissing, FsAbsent, FsPresent}
SourceHints == SourceTypes \cup {"none"}

\* opts = { sessionId, messageTypes, limit, offset } with the defaults
GetOpts == [sessionId |-> SessionId, messageTypes |-> {}, limit |-> 100, offset |-> 0]

IdleGet == [pc |-> "idle", hint |-> "none", fs |-> FsMissing, cloudHolds |-> FALSE,
            availAt |-> TRUE, k |-> 0, invoked |-> <<>>, outcomes |-> <<>>,
            result |-> "none", raised |-> FALSE]

\* How a call of getConversation on source s can settle: "hit" (a conversation),
\* "null" or "raise". ClaudeCodeSource answers from the projects directory; a
\* remote source holding the session may still answer null (its request
\* failed); any ConversationSource may reject.
GetOutcomes(s, g) ==
    {"raise"} \cup
    IF s = "code"
    THEN {IF c = NoConversation THEN "null" ELSE "hit" :
             c \in LocalGetConversation(g.fs, GetOpts)}
    ELSE IF g.cloudHolds THEN {"hit", "null"} ELSE {"null"}

\* The synchronous part of a tool function: select the sources, invoke the
\* operation on each, await Promise.all.
\* The tools of the server, and a name that is none of them.
Tools == {"list_projects", "list_sessions", "get_conversation", "search_conversations"}
ToolNames == Tools \cup {"export_all"}

\* What a tool call may give for sessionId or query: nothing, the empty string,
\* or a value.
ArgValues == {Null, "", "s1"}

\* !value on an argument
Falsy(value) == value = Null \/ value = ""

NoRequest == [tool |-> "none", sessionId |-> Null, query |-> Null, pc |-> "idle",
              isError |-> FALSE]

\* Mutant: the handler does not look at sessionId and query.
MissingArgument_never(name, sessionId, query) == FALSE

\* if (!sessionId) throw ... / if (!query) throw ...
MissingArgument(name, sessionId, query) ==
    \/ name = "get_conversation" /\ Falsy(sessionId)
    \/ name = "search_conversations" /\ Falsy(query)

\* The handler has the request and calls the tool function.
HandlerCalls(name, sessionId, query) ==
    [NoRequest EXCEPT !.tool = name, !.sessionId = sessionId, !.query = query,
                      !.pc = "running"]

\* The handler returns: createResponse(result), or the response of its catch
\* block when something was thrown.
HandlerReturns(r, thrown) == [r EXCEPT !.pc = "done", !.isError = thrown]

Dispatch(name, filter, limit, offset) ==
    /\ op.pc \in {"idle", "done"}
    /\ gc.pc \in {"idle", "done"}
    /\ gc' = IdleGet
    /\ LET active == ActiveSources(filter) IN
       /\ op' = [name |-> name, pc |-> "pending", filter |-> filter,
                 limit |-> limit, offset |-> offset, active |-> active,
                 availAt |-> [s \in SourceTypes |-> IsAvailable(s)],
                 resp |-> NoResponse]
       /\ settled' = [i \in 1..Len(active) |-> Pending]
    /\ UNCHANGED <<localVars, dateVars, sources, store, available, orgId, sinceRequest, calls>>

ListProjects(filter) == Dispatch("listProjects", filter, 0, 0)

ListSessions(filter, limit, offset) == Dispatch("listSessions", filter, limit, offset)

SearchConversations(filter, limit) == Dispatch("searchConversations", filter, limit, 0)

\* The promise of the i-th selected source fulfils with its answer.
SourceResolves(i) ==
    /\ op.pc = "pending"
    /\ i \in DOMAIN settled
    /\ settled[i].state = "pending"
    /\ settled' = [settled EXCEPT ![i] =
            [state |-> "resolved", items |-> SourceAnswer(op, op.active[i])]]
    /\ UNCHANGED <<localVars, dateVars, gc, request, sources, store, op, available, orgId, sinceRequest, calls>>

\* The promise of the i-th selected source rejects.
SourceRejects(i) ==
    /\ op.pc = "pending"
    /\ i \in DOMAIN settled
    /\ settled[i].state = "pending"
    /\ settled' = [settled EXCEPT ![i] = [state |-> "rejected", items |-> <<>>]]
    /\ UNCHANGED <<localVars, dateVars, gc, request, sources, store, op, available, orgId, sinceRequest, calls>>

\* The remote client is demoted (a 401/403 on some request, or markUnavailable).
CloudDemoted ==
    /\ available
    /\ markUnavailable
    /\ UNCHANGED <<localVars, dateVars, gc, request, sources, store, op, settled, orgId, sinceRequest, calls>>

\* Mutant: the per-source .catch is missing.
Caught_missing(p) == p

\* .catch(() => []) on the promise of one source
Caught(p) ==
    IF p.state = "rejected" THEN [state |-> "resolved", items |-> <<>>] ELSE p

\* Mutant: search results are truncated without the merge sort.
MergeResponse_unsorted(o, arrays) ==
    LET all == SortDesc(Flatten(arrays)) IN
    IF o.name = "listProjects"
    THEN [NoResponse EXCEPT !.items = all]
    ELSE IF o.name = "listSessions"
    THEN [NoResponse EXCEPT !.items = Slice(all, o.offset, o.offset + o.limit),
                            !.total_count = Len(all),
                            !.has_more = (o.offset + o.limit < Len(all))]
    ELSE [NoResponse EXCEPT !.items = Slice(Flatten(arrays), 0, o.limit),
                            !.sources_searched = o.active]

\* Mutant: sources_searched lists the configured sources.
MergeResponse_configured(o, arrays) ==
    LET all == SortDesc(Flatten(arrays)) IN
    IF o.name = "listProjects"
    THEN [NoResponse EXCEPT !.items = all]
    ELSE IF o.name = "listSessions"
    THEN [NoResponse EXCEPT !.items = Slice(all, o.offset, o.offset + o.limit),
                            !.total_count = Len(all),
                            !.has_more = (o.offset + o.limit < Len(all))]
    ELSE [NoResponse EXCEPT !.items = Slice(all, 0, o.limit),
                            !.sources_searched = sources]

\* The body of a tool function after its await: merge, sort, paginate.
MergeResponse(o, arrays) ==
    LET all == SortDesc(Flatten(arrays)) IN
    IF o.name = "listProjects"
    THEN [NoResponse EXCEPT !.items = all]
    ELSE IF o.name = "listSessions"
    THEN [NoResponse EXCEPT !.items = Slice(all, o.offset, o.offset + o.limit),
                            !.total_count = Len(all),
                            !.has_more = (o.offset + o.limit < Len(all))]
    ELSE [NoResponse EXCEPT !.items = Slice(all, 0, o.limit),
                            !.sources_searched = o.active]

\* Promise.all settles: the tool function returns its response, or rejects when
\* one of the promises it awaits rejected.
Complete ==
    /\ op.pc = "pending"
    /\ \A i \in DOMAIN settled : settled[i].state # "pending"
    /\ LET ps == [i \in DOMAIN settled |-> Caught(settled[i])] IN
       op' = [op EXCEPT !.pc = "done",
                        !.resp = IF \E i \in DOMAIN ps : ps[i].state = "rejected"
                                 THEN [NoResponse EXCEPT !.rejected = TRUE]
                                 ELSE MergeResponse(op, [i \in DOMAIN ps |-> ps[i].items])]
    /\ request' = HandlerReturns(request, op'.resp.rejected)
    /\ UNCHANGED <<localVars, dateVars, gc, sources, store, settled, available, orgId, sinceRequest, calls>>

\* Mutant: the sources are tried in the order of the sources list.
CompareSources_none(a, b) == 0

\* The comparator of the auto-detect order
CompareSources(a, b) == IF a = "code" THEN -1 ELSE IF b = "code" THEN 1 ELSE 0

RECURSIVE InsertSource(_, _)
\* x is placed before the first element it compares less than.
InsertSource(x, sorted) ==
    IF sorted = <<>> THEN <<x>>
    ELSE IF CompareSources(x, Head(sorted)) < 0 THEN <<x>> \o sorted
    ELSE <<Head(sorted)>> \o InsertSource(x, Tail(sorted))

RECURSIVE SortSources(_, _)
SortSources(rest, acc) ==
    IF rest = <<>> THEN acc
    ELSE SortSources(Tail(rest), InsertSource(Head(rest), acc))

\* [...sources].sort(code first)
Ordered == SortSources(sources, <<>>)

\* Mutant: with a hint the loop still tries the sources of another type.
SkipsOtherType_never(hint, s) == FALSE

\* if (source && src.type !== source) continue
SkipsOtherType(hint, s) == hint # "none" /\ s # hint

\* Mutant: a rejection of the awaited source is not caught.
CaughtNull_missing(outcome) == outcome

\* .catch(() => null) on the hinted call; try / catch around the call in the loop
CaughtNull(outcome) == IF outcome = "raise" THEN "null" ELSE outcome

RECURSIVE LoopFrom(_, _)
\* The for loop from its k-th source on, up to its next await or its return.
LoopFrom(g, k) ==
    IF k > Len(Ordered) THEN [g EXCEPT !.pc = "done", !.result = Null]
    ELSE IF ~IsAvailable(Ordered[k]) \/ SkipsOtherType(g.hint, Ordered[k])
         THEN LoopFrom(g, k + 1)
         ELSE [g EXCEPT !.pc = "loop", !.k = k, !.invoked = Append(@, Ordered[k])]

\* getConversation(sources, { sessionId, source: hint }) up to its first await.
GetConversation(hint, projects, cloudHolds) ==
    /\ op.pc \in {"idle", "done"}
    /\ gc.pc \in {"idle", "done"}
    /\ LET g == [IdleGet EXCEPT !.hint = hint, !.fs = projects,
                                !.cloudHolds = cloudHolds, !.availAt = available]
           targeted == hint # "none" /\ hint \in Range(sources) /\ IsAvailable(hint)
       IN  gc' = IF targeted
                 THEN [g EXCEPT !.pc = "hinted", !.invoked = <<hint>>]
                 ELSE LoopFrom(g, 1)
    /\ op' = IdleOp
    /\ settled' = <<>>
    /\ UNCHANGED <<localVars, dateVars, sources, store, available, orgId, sinceRequest, calls>>

\* The awaited call settles and getConversation runs on to its next await or
\* its return.
GetConversationResume(outcome) ==
    /\ gc.pc \in {"hinted", "loop"}
    /\ outcome \in GetOutcomes(gc.invoked[Len(gc.invoked)], gc)
    /\ LET g == [gc EXCEPT !.outcomes = Append(@, outcome)]
           r == CaughtNull(outcome)
       IN  gc' = IF r = "raise" THEN [g EXCEPT !.pc = "done", !.raised = TRUE]
                 ELSE IF r = "hit"
                 THEN [g EXCEPT !.pc = "done", !.result = gc.invoked[Len(gc.invoked)]]
                 ELSE LoopFrom(g, IF gc.pc = "hinted" THEN 1 ELSE gc.k + 1)
    /\ request' = IF gc'.pc = "done" THEN HandlerReturns(request, gc'.raised) ELSE request
    /\ UNCHANGED <<localVars, dateVars, sources, store, op, settled, available, orgId, sinceRequest, calls>>

\* The handler throws before any tool function is called (an unknown tool
\* name, no sessionId, no query) and answers from its catch block.
HandlerThrows(name, sessionId, query) ==
    /\ op.pc \in {"idle", "done"}
    /\ gc.pc \in {"idle", "done"}
    /\ name \notin Tools \/ MissingArgument(name, sessionId, query)
    /\ request' = HandlerReturns(HandlerCalls(name, sessionId, query), TRUE)
    /\ op' = IdleOp
    /\ gc' = IdleGet
    /\ settled' = <<>>
    /\ UNCHANGED <<localVars, dateVars, sources, store, available, orgId, sinceRequest, calls>>

\* case 'list_projects'
CallListProjects(filter) ==
    /\ ListProjects(filter)
    /\ request' = HandlerCalls("list_projects", Null, Null)

\* case 'list_sessions'
CallListSessions(filter, limit, offset) ==
    /\ ListSessions(filter, limit, offset)
    /\ request' = HandlerCalls("list_sessions", Null, Null)

\* case 'search_conversations', with a query
CallSearchConversations(query, filter, limit) ==
    /\ ~MissingArgument("search_conversations", Null, query)
    /\ SearchConversations(filter, limit)
    /\ request' = HandlerCalls("search_conversations", Null, query)

\* case 'get_conversation', with a sessionId
CallGetConversation(sessionId, hint, projects, cloudHolds) ==
    /\ ~MissingArgument("get_conversation", sessionId, Null)
    /\ GetConversation(hint, projects, cloudHolds)
    /\ request' = IF gc'.pc = "done"
                  THEN HandlerReturns(HandlerCalls("get_conversation", sessionId, Null),
                                      gc'.raised)
                  ELSE HandlerCalls("get_conversation", sessionId, Null)

(***************************************************************************)
(* Local search: ClaudeCodeSource.search.                                  *)
(*                                                                         *)
(* Text is a sequence of characters. A record of a searched file has a     *)
(* uuid, a timestamp, a type and the text blocks of message.content; a     *)
(* searched file also has what fs.stat reports for it: birthtime, mtime,   *)
(* or a failure.                                                           *)
(***************************************************************************)
FILE_CONCURRENCY == 10

\* The number of characters kept on each side of the match.
SnippetContext == 50

Repeat(ch, n) == [i \in 1..n |-> ch]

Msg(uuid, ts, type, blocks) ==
    [kind |-> "json", uuid |-> uuid, ts |-> ts, type |-> type, blocks |-> blocks]

StatFile(id, birthtime, mtime, statFails, lines) ==
    [id |-> id, jsonl |-> TRUE, lines |-> lines,
     birthtime |-> birthtime, mtime |-> mtime, statFails |-> statFails]

RECURSIVE JoinBlocks(_)
\* blocks.join(' ')
JoinBlocks(blocks) ==
    IF blocks = <<>> THEN <<>>
    ELSE IF Len(blocks) = 1 THEN blocks[1]
    ELSE blocks[1] \o <<" ">> \o JoinBlocks(Tail(blocks))

\* extractContent: the text of the record, its blocks joined by a space; the
\* empty text when the record has no message content.
extractContent(entry) == JoinBlocks(entry.blocks)

LowerChar(ch) ==
    CASE ch = "O" -> "o"
      [] ch = "K" -> "k"
      [] OTHER -> ch

\* String.prototype.toLowerCase
toLowerCase(text) == [i \in 1..Len(text) |-> LowerChar(text[i])]

\* String.prototype.indexOf: the zero-based position of the first occurrence,
\* or -1.
indexOf(text, q) ==
    LET at == {i \in 0..(Len(text) - Len(q)) : SubSeq(text, i + 1, i + Len(q)) = q}
    IN  IF at = {} THEN -1 ELSE CHOOSE i \in at : \A j \in at : i <= j

\* String.prototype.includes
includes(text, q) == indexOf(text, q) >= 0

Ellipsis == <<".", ".", ".">>

\* Mutant: the snippet is never marked as cut.
Snippet_unmarked(content, query) ==
    LET idx == indexOf(toLowerCase(content), toLowerCase(query))
    IN  SubSeq(content, Max(0, idx - SnippetContext) + 1,
               Min(Len(content), idx + Len(query) + SnippetContext))

\* The snippet of a matching content.
Snippet(content, query) ==
    LET idx == indexOf(toLowerCase(content), toLowerCase(query))
        snippetStart == Max(0, idx - SnippetContext)
        snippetEnd == Min(Len(content), idx + Len(query) + SnippetContext)
    IN  (IF snippetStart > 0 THEN Ellipsis ELSE <<>>)
            \o SubSeq(content, snippetStart + 1, snippetEnd)
            \o (IF snippetEnd < Len(content) THEN Ellipsis ELSE <<>>)

\* msg.timestamp < date and msg.timestamp > date on the strings of the record
\* and of the bound; a record without a timestamp compares false both ways.
BeforeStart(ts, startDate) ==
    startDate # NoDate /\ ts # NaN /\ StrLess(toISOString(ts), startDate)
AfterEnd(ts, endDate) ==
    endDate # NoDate /\ ts # NaN /\ StrLess(endDate, toISOString(ts))

\* parseJsonlFile(filePath, startDate, endDate)
parseJsonlFileBetween(lines, startDate, endDate) ==
    LET Kept(l) == /\ l.kind = "json"
                   /\ ~BeforeStart(l.ts, startDate)
                   /\ ~AfterEnd(l.ts, endDate)
    IN  SelectSeq(lines, Kept)

\* Mutant: the creation time is taken for the newest possible time.
shouldSkipFile_byCreation(file, startDate, endDate) ==
    IF startDate = NoDate /\ endDate = NoDate THEN FALSE
    ELSE IF file.statFails THEN FALSE
    ELSE LET fileModTime == toISOString(file.mtime)
             fileCreateTime == toISOString(file.birthtime)
             oldestPossibleTime == IF StrLess(fileCreateTime, fileModTime)
                                   THEN fileCreateTime ELSE fileModTime
         IN  \/ endDate # NoDate /\ StrLess(endDate, oldestPossibleTime)
             \/ startDate # NoDate /\ StrLess(fileCreateTime, startDate)

\* shouldSkipFile(filePath, startDate, endDate)
shouldSkipFile(file, startDate, endDate) ==
    IF startDate = NoDate /\ endDate = NoDate THEN FALSE
    ELSE IF file.statFails THEN FALSE
    ELSE LET fileModTime == toISOString(file.mtime)
             fileCreateTime == toISOString(file.birthtime)
             oldestPossibleTime == IF StrLess(fileCreateTime, fileModTime)
                                   THEN fileCreateTime ELSE fileModTime
             newestPossibleTime == fileModTime
         IN  \/ endDate # NoDate /\ StrLess(endDate, oldestPossibleTime)
             \/ startDate # NoDate /\ StrLess(newestPossibleTime, startDate)

SearchResult(sessionId, messageId, snippet, ts) ==
    [source |-> "code", sessionId |-> sessionId, messageId |-> messageId,
     snippet |-> snippet, ts |-> ts]

\* The results one file of a batch contributes.
FileResults(file, args) ==
    IF shouldSkipFile(file, args.startDate, args.endDate) THEN <<>>
    ELSE LET entries == parseJsonlFileBetween(file.lines, args.startDate, args.endDate)
             queryLower == toLowerCase(args.query)
             Matches(e) == includes(toLowerCase(extractContent(e)), queryLower)
             hits == SelectSeq(entries, Matches)
         IN  [k \in 1..Len(hits) |->
                SearchResult(file.id, hits[k].uuid,
                             Snippet(extractContent(hits[k]), args.query), hits[k].ts)]

RECURSIVE CollectFilePaths(_, _, _)
\* The loop that collects the paths of the .jsonl files (a path is the pair of
\* the position of the directory and the position of the file in it).
CollectFilePaths(fs, i, projectPath) ==
    IF i > Len(fs.dirs) THEN <<>>
    ELSE LET d == fs.dirs[i]
             IsJsonl(j) == d.files[j].jsonl
             found == SelectSeq([j \in 1..Len(d.files) |-> j], IsJsonl)
             here == IF projectPath # NoPath /\ decodeProjectPath(d.name) # projectPath
                     THEN <<>>
                     ELSE IF d.kind # "dir" THEN <<>>
                     ELSE [k \in 1..Len(found) |-> <<i, found[k]>>]
         IN  here \o CollectFilePaths(fs, i + 1, projectPath)

FileAt(fs, path) == fs.dirs[path[1]].files[path[2]]

RECURSIVE BatchResults(_, _, _)
\* for (const fileResults of batchResults) results.push(...fileResults)
BatchResults(fs, paths, args) ==
    IF paths = <<>> THEN <<>>
    ELSE FileResults(FileAt(fs, Head(paths)), args) \o BatchResults(fs, Tail(paths), args)

\* Mutant: the results are returned in the order they were collected.
InsertResult_unsorted(x, sorted) == Append(sorted, x)

RECURSIVE InsertResult(_, _)
\* x goes after the results that are not older than it (a stable sort).
InsertResult(x, sorted) ==
    IF sorted = <<>> THEN <<x>>
    ELSE IF Head(sorted).ts >= x.ts
         THEN <<Head(sorted)>> \o InsertResult(x, Tail(sorted))
         ELSE <<x>> \o sorted

RECURSIVE SortResultsFrom(_, _)
SortResultsFrom(rest, acc) ==
    IF rest = <<>> THEN acc
    ELSE SortResultsFrom(Tail(rest), InsertResult(Head(rest), acc))

\* results.sort((a, b) => b.timestamp.getTime() - a.timestamp.getTime())
SortResults(results) ==
    IF \E i \in 1..Len(results) : results[i].ts = NaN
    THEN Orderings(results)
    ELSE {SortResultsFrom(results, <<>>)}

\* Mutant: the loop never stops early.
LoopBreaks_never(count, limit) == FALSE

\* results.length >= limit, tested before each batch
LoopBreaks(count, limit) == count >= limit

\* filePaths.slice(i, i + FILE_CONCURRENCY), as the positions it takes
BatchOf(i, n) == (i + 1)..Min(i + FILE_CONCURRENCY, n)

\* Mutant: a failing readdir of the projects directory is not caught.
ReaddirCaught_rethrown(fs) == FALSE

\* try { ... await fs.readdir(projectsDir) ... } catch { }: what readdir
\* throws for a missing projects directory stays inside the method.
ReaddirCaught(fs) == ~fs.exists

\* A message of a remote conversation as search reads it: its uuid, its
\* created_at, its text field (empty when absent) and its content blocks.
CloudTextMessage(uuid, ts, text, blocks) ==
    [uuid |-> uuid, ts |-> ts, text |-> text, blocks |-> blocks]

\* A conversation of the listing, with the detail the API gives for it.
CloudConversation(uuid, created_at, updated_at, detail) ==
    [uuid |-> uuid, created_at |-> created_at, updated_at |-> updated_at,
     detail |-> detail]

\* extractCloudContent: the text field first, the text blocks otherwise.
extractCloudContent(msg) ==
    IF msg.text # <<>> THEN msg.text ELSE JoinBlocks(msg.blocks)

RECURSIVE CloudScanMessages(_, _, _, _)
\* The loop over the messages of one conversation in the remote search.
CloudScanMessages(results, conv, msgs, args) ==
    IF msgs = <<>> \/ Len(results) >= args.limit THEN results
    ELSE LET msg == Head(msgs)
             content == extractCloudContent(msg)
             next ==
                IF includes(toLowerCase(content), toLowerCase(args.query))
                THEN Append(results,
                        [SearchResult(conv.uuid, msg.uuid, Snippet(content, args.query),
                                      msg.ts) EXCEPT !.source = "cloud"])
                ELSE results
         IN  CloudScanMessages(next, conv, Tail(msgs), args)

RECURSIVE CloudScanConversations(_, _, _)
\* The loop over the listed conversations in the remote search.
CloudScanConversations(results, convs, args) ==
    IF convs = <<>> \/ Len(results) >= args.limit THEN results
    ELSE LET conv == Head(convs)
             next ==
                IF args.startDate # NoDate /\ StrLess(conv.updated_at, args.startDate)
                THEN results
                ELSE IF args.endDate # NoDate /\ StrLess(args.endDate, conv.created_at)
                THEN results
                ELSE IF ~conv.detail.found THEN results
                ELSE CloudScanMessages(results, conv, conv.detail.chat_messages, args)
         IN  CloudScanConversations(next, Tail(convs), args)

\* The session the remote listSessions makes of a listed conversation.
SessionOfConversation(conv) ==
    [id |-> conv.uuid, source |-> "cloud", projectId |-> CloudProjectId,
     projectName |-> <<"Claude.ai Conversations">>,
     createdAt |-> InstantOf(conv.created_at), updatedAt |-> InstantOf(conv.updated_at),
     messageCount |-> 0]

\* ClaudeApiSource.listSessions on the listing the API answered: the date
\* filters on the time values, the sort, the slice. projectPath and projectId
\* are not among the options it reads.
CloudListSessions(listing, args) ==
    LET all == [i \in 1..Len(listing) |-> SessionOfConversation(listing[i])]
        AfterStart(x) ==
            args.startDate = NoDate \/ x.updatedAt >= InstantOf(args.startDate)
        BeforeEnd(x) ==
            args.endDate = NoDate \/ x.createdAt <= InstantOf(args.endDate)
        kept == SelectSeq(SelectSeq(all, AfterStart), BeforeEnd)
    IN  {Slice(sorted, args.offset, args.offset + args.limit) :
            sorted \in SortSessions(kept)}

\* The entry listProjects keeps for one decoded path.
ProjectInfo(decodedPath) ==
    [path |-> decodedPath, sessionIds |-> {}, messageCount |-> 0, lastActivity |-> 0]

NoProjects == [projects |-> <<>>, thrown |-> FALSE]

\* Where the project of a decoded path stands in the Map (0 when it is new).
ProjectIndex(projects, decodedPath) ==
    LET at == {k \in 1..Len(projects) : projects[k].path = decodedPath}
    IN  IF at = {} THEN 0 ELSE CHOOSE k \in at : TRUE

RECURSIVE CountFiles(_, _, _)
\* The loop over the files of one project directory in listProjects; k is the
\* position of the project's entry.
CountFiles(acc, k, files) ==
    IF files = <<>> \/ acc.thrown THEN acc
    ELSE LET file == Head(files)
             info == acc.projects[k]
             added == [info EXCEPT !.sessionIds = @ \cup {file.id}]
             counted == [added EXCEPT
                            !.lastActivity = IF file.mtime > @ THEN file.mtime ELSE @,
                            !.messageCount = @ + Len(parseJsonlFile(file.lines))]
             next ==
                IF ~file.jsonl THEN acc
                ELSE IF file.statFails
                     THEN [projects |-> [acc.projects EXCEPT ![k] = added], thrown |-> TRUE]
                ELSE [acc EXCEPT !.projects[k] = counted]
         IN  CountFiles(next, k, Tail(files))

RECURSIVE CountDirs(_, _)
\* The loop over the entries of the projects directory in listProjects.
CountDirs(acc, dirs) ==
    IF dirs = <<>> \/ acc.thrown THEN acc
    ELSE LET d == Head(dirs)
             decodedPath == decodeProjectPath(d.name)
             known == ProjectIndex(acc.projects, decodedPath)
             withEntry == IF known = 0
                          THEN [acc EXCEPT !.projects = Append(@, ProjectInfo(decodedPath))]
                          ELSE acc
             next ==
                IF StatThrows(d) THEN [acc EXCEPT !.thrown = TRUE]
                ELSE IF d.kind # "dir" THEN acc
                ELSE CountFiles(withEntry, ProjectIndex(withEntry.projects, decodedPath),
                                d.files)
         IN  CountDirs(next, Tail(dirs))

\* ClaudeCodeSource.listProjects: the array it returns.
LocalListProjects(fs) ==
    LET counted == IF fs.exists THEN CountDirs(NoProjects, fs.dirs) ELSE NoProjects
    IN  [k \in 1..Len(counted.projects) |->
            [name |-> counted.projects[k].path,
             sessionCount |-> Cardinality(counted.projects[k].sessionIds),
             messageCount |-> counted.projects[k].messageCount,
             lastActivity |-> counted.projects[k].lastActivity]]

(***************************************************************************)
(* Calls on the local source, one at a time, over a projects directory     *)
(* that does not change.                                                   *)
(***************************************************************************)
\* limit and offset of the local calls range over 0..MaxPage.
MaxPage == 2

SessionFile(id, lines) == [id |-> id, jsonl |-> TRUE, lines |-> lines]
OtherFile(id, lines) == [id |-> id, jsonl |-> FALSE, lines |-> lines]

\* What a project directory may hold.
FileLists ==
    { <<>>,
      <<SessionFile("s1", <<Rec(1, "user"), Rec(3, "assistant")>>),
        SessionFile("s2", <<Rec(2, "user")>>)>>,
      <<SessionFile("s3", <<BlankLine, BadLine>>),
        OtherFile("s4", <<Rec(1, "user")>>),
        SessionFile("s5", <<Rec(3, "user"), BadLine, Rec(2, "result")>>)>>,
      <<SessionFile("s6", <<Rec(NaN, "summary"), Rec(2, "user")>>)>>,
      <<SessionFile("s2", <<Rec(1, "assistant"), Rec(1, "user")>>)>> }

\* Directory names: -a and -a-b, and a-b which decodes like -a-b.
DirNames == {<<"-", "a">>, <<"-", "a", "-", "b">>, <<"a", "-", "b">>}

DirEntries ==
    [name : DirNames, kind : {"dir"}, files : FileLists]
        \cup [name : DirNames, kind : {"file"}, files : {<<>>}]

Filesystems ==
    {[exists |-> FALSE, dirs |-> <<>>]}
        \cup {[exists |-> TRUE, dirs |-> <<>>]}
        \cup {[exists |-> TRUE, dirs |-> <<d>>] : d \in DirEntries}
        \cup {[exists |-> TRUE, dirs |-> <<d, e>>] :
                d \in DirEntries, e \in {x \in DirEntries : x.kind = "dir"}}

ProjectPaths == {NoPath, <<"a">>, <<"a", "/", "b">>}
StartDates == {NoDate, DateStr(2, "ms"), DateStr(3, "z"), DateStr(3, "plus")}
EndDates == {NoDate, DateStr(1, "ms"), DateStr(2, "z"), DateStr(2, "plus")}
SessionIds == {"s1", "s3", "s5", "s6", "zz"}
MessageTypeSets == {{}, {"user"}, {"system"}, {"user", "system"}}

\* The details the API may give for a conversation.
CloudDetails ==
    { NoDetail,
      CloudDetail(<<>>),
      CloudDetail(<<CloudMessage("assistant", 2), CloudMessage("human", 1),
                    CloudMessage("human", 3)>>),
      CloudDetail(<<CloudMessage("human", 2), CloudMessage("assistant", 2),
                    CloudMessage("human", 1)>>) }

NoArgs == [projectPath |-> NoPath, projectId |-> NoProjectId, startDate |-> NoDate, endDate |-> NoDate,
           limit |-> 0, offset |-> 0, sessionId |-> "none", messageTypes |-> {},
           detail |-> NoDetail, query |-> <<>>, listing |-> <<>>]

\* No call is running. For a search: pc is where it stands, filePaths the
\* collected paths, i the loop index, batch the positions of the files of the
\* batch last started, completed those of them that are done, results the
\* accumulated results and returned the returned array.
NoLocalCall == [fn |-> "none", args |-> NoArgs, sessions |-> <<>>,
                conversation |-> NoConversation, projects |-> <<>>,
                pc |-> "idle", filePaths |-> <<>>, i |-> 0, batch |-> {},
                completed |-> {}, results |-> <<>>, returned |-> <<>>,
                raised |-> FALSE]

\* source.listSessions({ projectPath, projectId, startDate, endDate, limit, offset })
\* returns.
LocalListSessionsCall(projectPath, projectId, startDate, endDate, limit, offset) ==
    /\ local.fn = "none"
    /\ LET args == [NoArgs EXCEPT !.projectPath = projectPath, !.projectId = projectId,
                                  !.startDate = startDate,
                                  !.endDate = endDate, !.limit = limit, !.offset = offset]
       IN  \E ret \in LocalListSessions(projectsDir, args) :
              local' = [NoLocalCall EXCEPT
                            !.fn = "listSessions", !.args = args, !.sessions = ret,
                            !.raised = ~projectsDir.exists /\ ~ReaddirCaught(projectsDir)]
    /\ UNCHANGED <<projectsDir, sessionVars, toolVars, dateVars>>

\* source.getConversation({ sessionId, messageTypes, limit, offset }) returns.
LocalGetConversationCall(sessionId, messageTypes, limit, offset) ==
    /\ local.fn = "none"
    /\ LET args == [NoArgs EXCEPT !.sessionId = sessionId, !.messageTypes = messageTypes,
                                  !.limit = limit, !.offset = offset]
       IN  \E ret \in LocalGetConversation(projectsDir, args) :
              local' = [NoLocalCall EXCEPT
                            !.fn = "getConversation", !.args = args, !.conversation = ret,
                            !.raised = ~projectsDir.exists /\ ~ReaddirCaught(projectsDir)]
    /\ UNCHANGED <<projectsDir, sessionVars, toolVars, dateVars>>

\* The remote source's getConversation({ sessionId, messageTypes, limit, offset })
\* returns; detail is what the API answered.
CloudGetConversationCall(detail, messageTypes, limit, offset) ==
    /\ local.fn = "none"
    /\ LET args == [NoArgs EXCEPT !.sessionId = SessionId, !.messageTypes = messageTypes,
                                  !.limit = limit, !.offset = offset, !.detail = detail]
       IN  \E ret \in CloudGetConversation(detail, args) :
              local' = [NoLocalCall EXCEPT !.fn = "cloudGetConversation", !.args = args,
                                           !.conversation = ret]
    /\ UNCHANGED <<projectsDir, sessionVars, toolVars, dateVars>>

\* The caller has taken the returned value; the next call can be made.
LocalCallTaken ==
    /\ local.fn # "none"
    /\ local.pc \in {"idle", "done"}
    /\ local' = NoLocalCall
    /\ UNCHANGED <<projectsDir, sessionVars, toolVars, dateVars>>

LocalInit ==
    /\ projectsDir \in Filesystems
    /\ local = NoLocalCall
    /\ available = TRUE
    /\ orgId = Null
    /\ sinceRequest = REQUEST_DELAY_MS
    /\ calls = [c \in Calls |-> IdleCall]
    /\ sources = <<>>
    /\ store = <<>>
    /\ op = <<>>
    /\ settled = <<>>
    /\ gc = <<>>
    /\ request = <<>>
    /\ dateCall = <<>>

LocalNext ==
    \/ \E p \in ProjectPaths, a \in StartDates, b \in EndDates,
          l \in 0..MaxPage, k \in 0..MaxPage :
            LocalListSessionsCall(p, NoProjectId, a, b, l, k)
    \/ \E id \in SessionIds, t \in MessageTypeSets,
          l \in 0..MaxPage, k \in 0..MaxPage : LocalGetConversationCall(id, t, l, k)
    \/ \E d \in CloudDetails, t \in MessageTypeSets,
          l \in 0..MaxPage, k \in 0..MaxPage : CloudGetConversationCall(d, t, l, k)
    \/ LocalCallTaken

LocalSpec ==
    /\ LocalInit
    /\ [][LocalNext]_vars

(***************************************************************************)
(* Calls on the local source over projects directories with many files:    *)
(* search runs one step per await.                                         *)
(***************************************************************************)
\* limit of search ranges over 0..MaxResults.
MaxResults == 5

\* source.listProjects() returns.
LocalListProjectsCall ==
    /\ local.fn = "none"
    /\ local' = [NoLocalCall EXCEPT
                    !.fn = "listProjects",
                    !.pc = "done",
                    !.raised = ~projectsDir.exists /\ ~ReaddirCaught(projectsDir),
                    !.projects = LocalListProjects(projectsDir)]
    /\ UNCHANGED <<projectsDir, sessionVars, toolVars, dateVars>>

\* source.search({ query, projectPath, startDate, endDate, limit }) up to the
\* loop over the batches: the file paths are collected; a missing projects
\* directory leaves none and ends the try block.
SearchStart(query, projectPath, startDate, endDate, limit) ==
    /\ local.fn = "none"
    /\ local' = [NoLocalCall EXCEPT
                    !.fn = "search",
                    !.pc = IF projectsDir.exists THEN "loop" ELSE "sort",
                    !.raised = ~projectsDir.exists /\ ~ReaddirCaught(projectsDir),
                    !.args = [NoArgs EXCEPT !.query = query, !.projectPath = projectPath,
                                            !.startDate = startDate, !.endDate = endDate,
                                            !.limit = limit],
                    !.filePaths = IF projectsDir.exists
                                  THEN CollectFilePaths(projectsDir, 1, projectPath)
                                  ELSE <<>>]
    /\ UNCHANGED <<projectsDir, sessionVars, toolVars, dateVars>>

\* The loop goes on: the next batch is cut and its files are started.
BatchStart ==
    /\ local.fn = "search"
    /\ local.pc = "loop"
    /\ local.i < Len(local.filePaths)
    /\ ~LoopBreaks(Len(local.results), local.args.limit)
    /\ local' = [local EXCEPT !.pc = "batch",
                              !.batch = BatchOf(local.i, Len(local.filePaths)),
                              !.completed = {}]
    /\ UNCHANGED <<projectsDir, sessionVars, toolVars, dateVars>>

\* One file of the batch in flight has been read.
FileCompleted(j) ==
    /\ local.fn = "search"
    /\ local.pc = "batch"
    /\ j \in local.batch \ local.completed
    /\ local' = [local EXCEPT !.completed = @ \cup {j}]
    /\ UNCHANGED <<projectsDir, sessionVars, toolVars, dateVars>>

\* Promise.all has resolved: the results of the batch are added, file by file.
BatchEnd ==
    /\ local.fn = "search"
    /\ local.pc = "batch"
    /\ local.completed = local.batch
    /\ local' = [local EXCEPT
                    !.pc = "loop",
                    !.results = @ \o BatchResults(projectsDir,
                                    SubSeq(local.filePaths, local.i + 1,
                                           Min(local.i + FILE_CONCURRENCY, Len(local.filePaths))),
                                    local.args),
                    !.i = @ + FILE_CONCURRENCY]
    /\ UNCHANGED <<projectsDir, sessionVars, toolVars, dateVars>>

\* The loop is over (no file left, or enough results): sort, slice, return.
SearchReturn ==
    /\ local.fn = "search"
    /\ \/ local.pc = "sort"
       \/ /\ local.pc = "loop"
          /\ \/ local.i >= Len(local.filePaths)
             \/ LoopBreaks(Len(local.results), local.args.limit)
    /\ \E sorted \in SortResults(local.results) :
          local' = [local EXCEPT !.pc = "done",
                                 !.returned = Slice(sorted, 0, local.args.limit)]
    /\ UNCHANGED <<projectsDir, sessionVars, toolVars, dateVars>>

\* The query, in mixed case.
Queries == {<<"o", "K">>}

Hit == <<"O", "K">>
Miss == <<"n", "o">>

\* A file with one user record.
OneRecord(id, uuid, ts, mtime, text) ==
    StatFile(id, 1, mtime, FALSE, <<Msg(uuid, ts, "user", <<text>>)>>)

\* Two project directories with 11 and 10 session files; f03, f07, f12 and f21
\* hold a matching record, and f07 was last written at 3.
ManyFiles ==
    [exists |-> TRUE,
     dirs |-> <<
        [name |-> <<"-", "a">>, kind |-> "dir",
         files |-> <<OneRecord("f01", "u01", 1, 9, Miss), OneRecord("f02", "u02", 1, 9, Miss),
                     OneRecord("f03", "u03", 5, 9, Hit), OneRecord("f04", "u04", 1, 9, Miss),
                     OneRecord("f05", "u05", 1, 9, Miss), OneRecord("f06", "u06", 1, 9, Miss),
                     OneRecord("f07", "u07", 2, 3, Hit), OneRecord("f08", "u08", 1, 9, Miss),
                     OneRecord("f09", "u09", 1, 9, Miss), OneRecord("f10", "u10", 1, 9, Miss),
                     OneRecord("f11", "u11", 1, 9, Miss)>>],
        [name |-> <<"-", "a", "-", "b">>, kind |-> "dir",
         files |-> <<OneRecord("f12", "u12", 9, 9, Hit), OneRecord("f13", "u13", 1, 9, Miss),
                     OneRecord("f14", "u14", 1, 9, Miss), OneRecord("f15", "u15", 1, 9, Miss),
                     OneRecord("f16", "u16", 1, 9, Miss), OneRecord("f17", "u17", 1, 9, Miss),
                     OneRecord("f18", "u18", 1, 9, Miss), OneRecord("f19", "u19", 1, 9, Miss),
                     OneRecord("f20", "u20", 1, 9, Miss), OneRecord("f21", "u21", 4, 9, Hit)>>] >>]

\* Contents around the match: 50 characters on each side, 51 on each side, a
\* match at the start and again at the end, 49 characters and the joining
\* space before it.
Padded(before, text, after) == Repeat("a", before) \o text \o Repeat("b", after)

\* One project directory whose records have long contents, a malformed line,
\* a file that is not a session file and a file whose stat fails.
LongContents ==
    [exists |-> TRUE,
     dirs |-> <<
        [name |-> <<"-", "a">>, kind |-> "dir",
         files |-> <<
            StatFile("g1", 1, 3, FALSE,
                     <<Msg("m1", 1, "user", <<Padded(50, <<"O", "K">>, 50)>>),
                       BadLine,
                       Msg("m2", 2, "assistant", <<Padded(51, <<"o", "k">>, 51)>>),
                       Msg("m3", 3, "user", <<Miss>>)>>),
            OtherFile("notes", <<Msg("m0", 1, "user", <<Hit>>)>>),
            StatFile("g2", 4, 6, FALSE,
                     <<Msg("m4", 4, "user", <<Padded(0, <<"o", "k">>, 55) \o <<"O", "K">>>>),
                       Msg("m5", 5, "user", <<<<"o">>, <<"k">>>>),
                       Msg("m6", 6, "assistant", <<Repeat("a", 49), <<"O", "k">>>>)>>),
            StatFile("g3", 1, 1, TRUE, <<Msg("m7", 5, "user", <<Hit>>)>>)>>] >>]

\* One project directory whose files were created and written at different
\* times: d1 after the range, d2 before it, d3 copied (its creation time is later
\* than its modification time), d4 across the range, d5 with a failing stat.
\* Every record was written between the creation and the modification of its file.
DatedFiles ==
    [exists |-> TRUE,
     dirs |-> <<
        [name |-> <<"-", "a">>, kind |-> "dir",
         files |-> <<
            StatFile("d1", 6, 8, FALSE, <<Msg("r1", 7, "user", <<Hit>>)>>),
            StatFile("d2", 1, 3, FALSE, <<Msg("r2", 2, "user", <<Hit>>)>>),
            StatFile("d3", 7, 6, FALSE, <<Msg("r3", 6, "user", <<Hit>>)>>),
            StatFile("d4", 3, 6, FALSE,
                     <<Msg("r4", 3, "user", <<Hit>>), Msg("r5", 5, "assistant", <<Hit>>),
                       Msg("r6", 6, "user", <<Hit>>)>>),
            StatFile("d5", 1, 1, TRUE, <<Msg("r7", 4, "user", <<Hit>>)>>)>>] >>]

\* A file whose record carries a later time than the file's own modification
\* time (the clock was set back before the file was last written).
ClockAdjusted ==
    [exists |-> TRUE,
     dirs |-> <<
        [name |-> <<"-", "a">>, kind |-> "dir",
         files |-> <<
            StatFile("e1", 1, 3, FALSE, <<Msg("q1", 5, "user", <<Hit>>)>>),
            StatFile("e2", 4, 5, FALSE, <<Msg("q2", 4, "user", <<Hit>>)>>)>>] >>]

\* The first entry of the projects directory cannot be examined (its stat
\* fails); the project after it holds two sessions.
BrokenEntry ==
    [exists |-> TRUE,
     dirs |-> <<
        [name |-> <<"-", "a">>, kind |-> "broken", files |-> <<>>],
        [name |-> <<"-", "a", "-", "b">>, kind |-> "dir",
         files |-> <<OneRecord("k1", "v1", 4, 5, Hit), OneRecord("k2", "v2", 5, 6, Miss)>>] >>]

\* The stat of the first session file of the first project fails; a second
\* file and a second project come after it.
FailingFileStat ==
    [exists |-> TRUE,
     dirs |-> <<
        [name |-> <<"-", "a">>, kind |-> "dir",
         files |-> <<StatFile("j1", 1, 1, TRUE, <<Msg("w1", 4, "user", <<Hit>>)>>),
                     OneRecord("j2", "w2", 5, 6, Hit)>>],
        [name |-> <<"-", "a", "-", "b">>, kind |-> "dir",
         files |-> <<OneRecord("j3", "w3", 3, 4, Miss)>>] >>]

\* The listings the API may give for a search, each conversation with its
\* detail.
CloudListings ==
    { <<>>,
      <<CloudConversation("c1", DateStr(1, "ms"), DateStr(6, "ms"),
            CloudDetail(<<CloudTextMessage("n1", 2, Padded(51, <<"o", "k">>, 50), <<>>),
                          CloudTextMessage("n2", 6, <<>>, <<Repeat("a", 50), Hit>>),
                          CloudTextMessage("n3", 3, Miss, <<Hit>>)>>)),
        CloudConversation("c2", DateStr(2, "ms"), DateStr(3, "ms"), NoDetail),
        CloudConversation("c3", DateStr(7, "ms"), DateStr(8, "ms"),
            CloudDetail(<<CloudTextMessage("n4", 8, Hit \o Repeat("b", 51), <<>>)>>))>> }

\* The remote source's listSessions({ projectPath, projectId, startDate,
\* endDate, limit, offset }) returns; listing is what the API answered.
CloudListSessionsCall(listing, projectPath, projectId, startDate, endDate, limit, offset) ==
    /\ local.fn = "none"
    /\ LET args == [NoArgs EXCEPT !.projectPath = projectPath, !.projectId = projectId,
                                  !.startDate = startDate, !.endDate = endDate,
                                  !.limit = limit, !.offset = offset,
                                  !.listing = listing]
       IN  \E ret \in CloudListSessions(listing, args) :
              local' = [NoLocalCall EXCEPT !.fn = "cloudListSessions", !.pc = "done",
                                           !.args = args, !.sessions = ret]
    /\ UNCHANGED <<projectsDir, sessionVars, toolVars, dateVars>>

\* The remote source's search({ query, projectPath, startDate, endDate, limit })
\* returns; listing is what the API answered.
CloudSearchCall(listing, query, projectPath, startDate, endDate, limit) ==
    /\ local.fn = "none"
    /\ LET args == [NoArgs EXCEPT !.query = query, !.projectPath = projectPath,
                                  !.startDate = startDate,
                                  !.endDate = endDate, !.limit = limit,
                                  !.listing = listing]
           results == CloudScanConversations(<<>>, listing, args)
       IN  \E sorted \in SortResults(results) :
              local' = [NoLocalCall EXCEPT !.fn = "cloudSearch", !.pc = "done",
                                           !.args = args, !.results = results,
                                           !.returned = Slice(sorted, 0, limit)]
    /\ UNCHANGED <<projectsDir, sessionVars, toolVars, dateVars>>

SearchFilesystems ==
    {[exists |-> FALSE, dirs |-> <<>>], ManyFiles, LongContents, DatedFiles, ClockAdjusted,
     BrokenEntry, FailingFileStat}

SearchStartDates == {NoDate, DateStr(4, "ms")}
SearchEndDates == {NoDate, DateStr(5, "ms")}
SearchProjectPaths == {NoPath, <<"a">>}
SearchProjectIds == {NoProjectId, CodeProjectId(<<"a">>)}
SearchSessionIds == {"f03", "g1", "zz"}

SearchInit ==
    /\ projectsDir \in SearchFilesystems
    /\ local = NoLocalCall
    /\ available = TRUE
    /\ orgId = Null
    /\ sinceRequest = REQUEST_DELAY_MS
    /\ calls = [c \in Calls |-> IdleCall]
    /\ sources = <<>>
    /\ store = <<>>
    /\ op = <<>>
    /\ settled = <<>>
    /\ gc = <<>>
    /\ request = <<>>
    /\ dateCall = <<>>

SearchNext ==
    \/ LocalListProjectsCall
    \/ \E p \in SearchProjectPaths, id \in SearchProjectIds, a \in SearchStartDates,
          b \in SearchEndDates, l \in 0..MaxPage, k \in 0..MaxPage :
            LocalListSessionsCall(p, id, a, b, l, k)
    \/ \E c \in CloudListings, p \in SearchProjectPaths, id \in SearchProjectIds,
          a \in SearchStartDates, b \in SearchEndDates,
          l \in 0..MaxPage, k \in 0..MaxPage :
            CloudListSessionsCall(c, p, id, a, b, l, k)
    \/ \E id \in SearchSessionIds, t \in MessageTypeSets,
          l \in 0..MaxPage, k \in 0..MaxPage : LocalGetConversationCall(id, t, l, k)
    \/ \E q \in Queries, p \in SearchProjectPaths, a \in SearchStartDates,
          b \in SearchEndDates, l \in 0..MaxResults : SearchStart(q, p, a, b, l)
    \/ \E c \in CloudListings, q \in Queries, p \in SearchProjectPaths,
          a \in SearchStartDates, b \in SearchEndDates, l \in 0..MaxResults :
            CloudSearchCall(c, q, p, a, b, l)
    \/ BatchStart
    \/ \E j \in 1..(2 * FILE_CONCURRENCY + 1) : FileCompleted(j)
    \/ BatchEnd
    \/ SearchReturn
    \/ LocalCallTaken

SearchSpec ==
    /\ SearchInit
    /\ [][SearchNext]_vars

(***************************************************************************)
(* The date normalizer: utils/date.ts normalizeDate.                       *)
(*                                                                         *)
(* Time is counted in milliseconds. A bare calendar day is its number n;   *)
(* the wall-clock reading h:m:s.ms of day n is n * DayMs plus the time of  *)
(* day, and a UTC instant is the wall-clock reading UTC shows at it. A     *)
(* zone has an offset (local reading minus UTC reading) that can change at *)
(* one instant, its daylight-saving transition.                            *)
(***************************************************************************)
HourMs == 60 * 60000
DayMs == 24 * HourMs

\* The days normalizeDate is given; the transitions below fall on day 3.
Days == {2, 3, 4}

Zones == {"UTC", "Asia/Tokyo", "America/New_York", "Australia/Sydney"}

\* The offset of a zone at an instant: New York goes from -5 h to -4 h at
\* 07:00 UTC of day 3 (02:00 local), Sydney from +11 h to +10 h at 16:00 UTC
\* of day 2 (03:00 local of day 3).
ZoneOffset(zone, t) ==
    CASE zone = "UTC" -> 0
      [] zone = "Asia/Tokyo" -> 9 * HourMs
      [] zone = "America/New_York" ->
            IF t < 3 * DayMs + 7 * HourMs THEN -5 * HourMs ELSE -4 * HourMs
      [] zone = "Australia/Sydney" ->
            IF t < 2 * DayMs + 16 * HourMs THEN 11 * HourMs ELSE 10 * HourMs

ZoneOffsets(zone) ==
    CASE zone = "UTC" -> {0}
      [] zone = "Asia/Tokyo" -> {9 * HourMs}
      [] zone = "America/New_York" -> {-5 * HourMs, -4 * HourMs}
      [] zone = "Australia/Sydney" -> {11 * HourMs, 10 * HourMs}

\* new Date(year, month, day, h, m, s, ms) and the parsing of a local date
\* string: the instant at which the system zone shows the wall-clock reading
\* (the earlier one when it shows it twice, the reading taken with the offset
\* before the transition when it never shows it).
LocalToInstant(zone, wall) ==
    LET shown == {t \in {wall - o : o \in ZoneOffsets(zone)} : t + ZoneOffset(zone, t) = wall}
    IN  IF shown # {} THEN CHOOSE t \in shown : \A u \in shown : t <= u
        ELSE wall - ZoneOffset(zone, wall - DayMs)

\* date.toLocaleString('en-CA', { timeZone }): the wall-clock reading of the
\* zone at the instant, to the second.
toLocaleString(t, zone) ==
    LET wall == t + ZoneOffset(zone, t) IN wall - (wall % 1000)

\* A bare calendar day, and a date string with a time component.
BareDay(n) == [kind |-> "day", day |-> n, wall |-> 0, sfx |-> "none"]
DateTime(wall, sfx) == [kind |-> "time", day |-> 0, wall |-> wall, sfx |-> sfx]

\* `${dateString}T00:00:00.000Z` and `${dateString}T23:59:59.999Z`
UtcBoundary(n, isEndDate) ==
    DateTime(n * DayMs + (IF isEndDate THEN DayMs - 1 ELSE 0), "ms")

\* Mutant: the two boundaries of the day are exchanged.
TimeOfDay_swapped(isEndDate) == IF isEndDate THEN 0 ELSE DayMs - 1

\* hour, minute, second, millisecond of the boundary, as milliseconds
TimeOfDay(isEndDate) == IF isEndDate THEN DayMs - 1 ELSE 0

\* normalizeDate(dateString, isEndDate, timezone) in a process whose system
\* zone is systemZone; timezone is Null when it is not given. new Date(string)
\* on the output of toLocaleString is implementation-defined: parser says
\* whether it reads it as a local time ("local") or gives an Invalid Date
\* ("invalid"), and then toISOString throws and the catch block answers.
normalizeDate(dateString, isEndDate, timezone, systemZone, parser) ==
    LET tz == IF timezone = Null THEN systemZone ELSE timezone
        n == dateString.day
        referenceDate == LocalToInstant(systemZone, n * DayMs + 12 * HourMs)
        offsetMs == 0 - ZoneOffset(systemZone, referenceDate)
        localTime == LocalToInstant(systemZone, n * DayMs + TimeOfDay(isEndDate))
        targetTzTime == LocalToInstant(systemZone, toLocaleString(localTime, tz))
        utcTime == LocalToInstant(systemZone, toLocaleString(localTime, "UTC"))
        tzOffsetMs == targetTzTime - utcTime
        utcResult == localTime + offsetMs - tzOffsetMs
    IN  IF dateString.kind = "time" THEN dateString
        ELSE IF tz = "UTC" THEN UtcBoundary(n, isEndDate)
        ELSE IF parser = "invalid" THEN UtcBoundary(n, isEndDate)
        ELSE DateTime(utcResult, "ms")

(***************************************************************************)
(* Calls of normalizeDate in a process with a system zone.                 *)
(***************************************************************************)
SystemZones == {"UTC", "Asia/Tokyo", "America/New_York"}
Parsers == {"local", "invalid"}

\* The date strings normalizeDate is given.
DateStrings ==
    {BareDay(n) : n \in Days}
        \cup {DateTime(3 * DayMs + 10 * HourMs, "z"), DateTime(3 * DayMs, "plus")}

NoDateCall(systemZone, parser) ==
    [systemZone |-> systemZone, parser |-> parser, fn |-> "none",
     dateString |-> BareDay(0), isEndDate |-> FALSE, timezone |-> Null,
     returned |-> BareDay(0), renormalized |-> FALSE]

\* normalizeDate(dateString, isEndDate, timezone) returns.
NormalizeDate(dateString, isEndDate, timezone) ==
    /\ dateCall.fn = "none"
    /\ dateCall' = [dateCall EXCEPT
                       !.fn = "normalizeDate",
                       !.dateString = dateString,
                       !.isEndDate = isEndDate,
                       !.timezone = timezone,
                       !.returned = normalizeDate(dateString, isEndDate, timezone,
                                                  dateCall.systemZone, dateCall.parser)]
    /\ UNCHANGED <<sessionVars, toolVars, localVars>>

\* normalizeDate is called again on what it returned.
NormalizeAgain ==
    /\ dateCall.fn = "normalizeDate"
    /\ ~dateCall.renormalized
    /\ dateCall' = [dateCall EXCEPT
                       !.renormalized = TRUE,
                       !.returned = normalizeDate(dateCall.returned, dateCall.isEndDate,
                                                  dateCall.timezone, dateCall.systemZone,
                                                  dateCall.parser)]
    /\ UNCHANGED <<sessionVars, toolVars, localVars>>

\* The caller has taken the returned value.
DateTaken ==
    /\ dateCall.fn # "none"
    /\ dateCall' = NoDateCall(dateCall.systemZone, dateCall.parser)
    /\ UNCHANGED <<sessionVars, toolVars, localVars>>

DateInit ==
    /\ dateCall \in {NoDateCall(z, p) : z \in SystemZones, p \in Parsers}
    /\ projectsDir = <<>>
    /\ local = <<>>
    /\ available = TRUE
    /\ orgId = Null
    /\ sinceRequest = REQUEST_DELAY_MS
    /\ calls = [c \in Calls |-> IdleCall]
    /\ sources = <<>>
    /\ store = <<>>
    /\ op = <<>>
    /\ settled = <<>>
    /\ gc = <<>>
    /\ request = <<>>

DateNext ==
    \/ \E d \in DateStrings, e \in BOOLEAN, tz \in Zones \cup {Null} : NormalizeDate(d, e, tz)
    \/ NormalizeAgain
    \/ DateTaken

DateSpec ==
    /\ DateInit
    /\ [][DateNext]_vars

ToolsInit ==
    /\ sources \in SourceLists
    /\ store \in [code : SubSeqs(CodeItems), cloud : SubSeqs(CloudItems)]
    /\ op = IdleOp
    /\ settled = <<>>
    /\ gc = IdleGet
    /\ request = NoRequest
    /\ dateCall = <<>>
    /\ projectsDir = <<>>
    /\ local = <<>>
    /\ available = TRUE
    /\ orgId = Null
    /\ sinceRequest = REQUEST_DELAY_MS
    /\ calls = [c \in Calls |-> IdleCall]

ToolsNext ==
    \/ \E n \in ToolNames \ Tools : HandlerThrows(n, Null, Null)
    \/ \E id \in ArgValues : HandlerThrows("get_conversation", id, Null)
    \/ \E q \in ArgValues : HandlerThrows("search_conversations", Null, q)
    \/ \E f \in SourceFilters : CallListProjects(f)
    \/ \E f \in SourceFilters, l \in 0..MaxLimit, k \in 0..MaxLimit :
          CallListSessions(f, l, k)
    \/ \E q \in ArgValues, f \in SourceFilters, l \in 0..MaxLimit :
          CallSearchConversations(q, f, l)
    \/ \E i \in 1..Len(sources) : SourceResolves(i)
    \/ \E i \in 1..Len(sources) : SourceRejects(i)
    \/ Complete
    \/ CloudDemoted
    \/ \E id \in ArgValues, h \in SourceHints, p \in GetFs, c \in BOOLEAN :
          CallGetConversation(id, h, p, c)
    \/ \E o \in {"hit", "null", "raise"} : GetConversationResume(o)

ToolsSpec ==
    /\ ToolsInit
    /\ [][ToolsNext]_vars

(***************************************************************************)
(* Claims about CloudSession, checked under SessionSpec.                   *)
(***************************************************************************)
T == calls[traced]
TReturned == T.pc \in {"returned", "done"} /\ T.fn \in {"fetchApi", "getOrgId"}
IsReq(e) == e.kind = "req"
IsResp(e) == e.kind = "resp"
IsBackoff(e) == e.kind = "backoff"
Is429(e) == e.kind = "resp" /\ e.error = "none" /\ e.status = 429
IsAuthEv(e) == e.kind = "resp" /\ e.error = "none" /\ e.status \in {401, 403}
IsOkEv(e) == e.kind = "resp" /\ e.error = "none" /\ e.status = 200
IsRetryableErrorEv(e) ==
    e.kind = "resp" /\ e.error \notin {"none", "TimeoutError", "AbortError"}
Requests(log) == SelectSeq(log, IsReq)
Responses(log) == SelectSeq(log, IsResp)
Backoffs(log) == SelectSeq(log, IsBackoff)

\* C1: the available flag starts true and, under any interleaving of
\* markUnavailable, getOrgId and fetchApi calls, once false it is never true again.
C1_AvailableIrreversible ==
    /\ available = TRUE
    /\ [][available = FALSE => available' = FALSE]_vars

\* The flag is false and a call that was in flight at the demotion has since
\* returned a successful payload.
C1_Witness ==
    /\ ~available
    /\ T.pc = "returned"
    /\ T.startAvail
    /\ ~T.result.isNull

\* C2: a fetchApi call that starts while available is false returns null without
\* issuing any network request (and without sleeping), each time it is made.
C2_UnavailableNoRequest ==
    (T.pc # "idle" /\ ~T.startAvail) =>
        /\ T.pc \in {"returned", "done"}
        /\ T.log = <<>>
        /\ T.result.isNull

C2_Witness ==
    /\ T.fn = "fetchApi"
    /\ T.pc = "returned"
    /\ ~T.startAvail

\* C3: a 401 or 403 on any attempt of a fetchApi call is the last event of that
\* call: available is false, the call has returned null, and no further request
\* or backoff follows it.
C3_AuthFailureDemotes ==
    \A i \in 1..Len(T.log) :
        IsAuthEv(T.log[i]) =>
            /\ i = Len(T.log)
            /\ T.pc \in {"returned", "done"}
            /\ T.result.isNull
            /\ ~available

\* A 403 on the third attempt, after a 429 and a network error.
C3_Witness ==
    /\ Len(Responses(T.log)) = 3
    /\ T.log[Len(T.log)].status = 403
    /\ T.log[Len(T.log)].kind = "resp"
    /\ T.pc = "returned"

\* C4 (as claimed): a fetchApi call whose first three responses are 429 gets to
\* see a following response and, when that one is a success, returns its payload;
\* the backoff sleeps between its attempts are strictly increasing.
C4_SuccessAfterThree429 ==
    LET rs == Responses(T.log)
        bs == Backoffs(T.log)
    IN  /\ \A i \in 1..Len(bs) : i > 1 => bs[i - 1].ms < bs[i].ms
        /\ (TReturned /\ Len(rs) >= 3 /\ \A i \in 1..3 : Is429(rs[i])) =>
                /\ Len(rs) >= 4
                /\ IsOkEv(rs[4]) => ~T.result.isNull

Exhausted(log) ==
    LET rs == Responses(log) IN
    /\ Len(rs) = 3
    /\ \A i \in 1..3 : Is429(rs[i]) \/ IsRetryableErrorEv(rs[i])

\* C6: the step by which a fetchApi call returns after using up its attempts on
\* 429 responses or retryable transport errors returns null and changes neither
\* available nor orgId, and neither does any step that handles such a response.
C6_ExhaustionKeepsAvailable ==
    /\ [][(T.pc \in {"fetching", "backoff"} /\ calls'[traced].pc = "returned"
            /\ Exhausted(calls'[traced].log))
          => (calls'[traced].result.isNull /\ available' = available /\ orgId' = orgId)]_vars
    /\ [][(T.pc = "fetching" /\ calls'[traced].pc = "backoff")
          => (available' = available /\ orgId' = orgId)]_vars

\* A call exhausted by a mix of 429 and network errors has returned null and the
\* client is still available.
C6_Witness ==
    LET rs == Responses(T.log) IN
    /\ T.fn = "fetchApi"
    /\ T.pc = "returned"
    /\ Exhausted(T.log)
    /\ Is429(rs[3])
    /\ IsRetryableErrorEv(rs[1])
    /\ T.result.isNull
    /\ available
    /\ orgId = Null

\* Call c starts a network request in this step.
Issues(c) ==
    /\ calls'[c].pc = "fetching"
    /\ calls[c].pc # "fetching" \/ calls'[c].attempt # calls[c].attempt

\* C7 (as claimed): any two network requests of one instance start at least
\* REQUEST_DELAY_MS apart, also with several calls in progress and on retries.
C7_MinRequestSpacing ==
    [][\A c \in Calls : Issues(c) => sinceRequest >= 100]_vars

(***************************************************************************)
(* Claims about the orchestration layer, checked under ToolsSpec.          *)
(***************************************************************************)
Dispatched == op.pc \in {"pending", "done"}
Invoked == {op.active[j] : j \in 1..Len(op.active)}

\* C8: in listProjects, listSessions and searchConversations the operation of a
\* source is invoked (once) if and only if, when the call was dispatched, the
\* source reported isAvailable() and its type equals the filter or the filter is
\* 'all'.
C8_InvokedIffAvailableAndSelected ==
    Dispatched =>
        /\ DOMAIN settled = 1..Len(op.active)
        /\ Cardinality(Invoked) = Len(op.active)
        /\ \A i \in 1..Len(sources) :
             sources[i] \in Invoked <=>
                (op.availAt[sources[i]] /\ (op.filter = "all" \/ sources[i] = op.filter))

\* A search over both sources with filter 'all', dispatched after the remote
\* source became unavailable, invoked the local source only.
C8_Witness ==
    /\ op.pc = "done"
    /\ op.name = "searchConversations"
    /\ op.filter = "all"
    /\ sources = <<"code", "cloud">>
    /\ ~op.availAt["cloud"]
    /\ op.active = <<"code">>
    /\ Len(op.resp.items) > 0

\* The indices of the fan-out whose promise fulfilled, in order.
Fulfilled == Pick([i \in 1..Len(op.active) |-> i],
                  {i \in DOMAIN settled : settled[i].state = "resolved"}, 1)

RECURSIVE SumLen(_)
SumLen(arrays) == IF arrays = <<>> THEN 0 ELSE Len(Head(arrays)) + SumLen(Tail(arrays))

\* C9: when the call on a selected source rejects, the tool function still
\* returns; its items (and, for listSessions, its pagination) are those computed
\* from the other sources alone, and every item the other sources answered is
\* in the merged list (counted by total_count, and returned up to the page).
C9_RejectingSourceIsOmitted ==
    op.pc = "done" =>
        LET others == [j \in 1..Len(Fulfilled) |-> settled[Fulfilled[j]].items]
            alone == MergeResponse(op, others)
        IN  /\ ~op.resp.rejected
            /\ op.resp.items = alone.items
            /\ op.resp.total_count = alone.total_count
            /\ op.resp.has_more = alone.has_more
            /\ op.name = "listProjects" =>
                  \A j \in 1..Len(others) : Range(others[j]) \subseteq Range(op.resp.items)
            /\ op.name = "listSessions" => op.resp.total_count = SumLen(others)
            /\ op.name = "searchConversations" =>
                  Len(op.resp.items) = Min(op.limit, SumLen(others))

\* listSessions over both sources: the remote source rejected, the local
\* source's sessions were returned.
C9_Witness ==
    /\ op.pc = "done"
    /\ op.name = "listSessions"
    /\ Len(op.active) = 2
    /\ \E i \in DOMAIN settled :
            settled[i].state = "rejected" /\ op.active[i] = "cloud"
    /\ Len(op.resp.items) = 2
    /\ ~op.resp.rejected

AllResolved == \A i \in DOMAIN settled : settled[i].state = "resolved"
ListSessionsAnswered ==
    op.pc = "done" /\ op.name = "listSessions" /\ ~op.resp.rejected /\ AllResolved

\* The sessions of the queried sources that match the filters of the request.
AllMatching == UNION {Range(store[s]) : s \in Invoked}

\* C11: the total_count of a listSessions response is the number of sessions
\* matching the filters across the queried sources, whatever limit and offset
\* the request carries.
C11_TotalCountIsMatchingCount ==
    ListSessionsAnswered => op.resp.total_count = Cardinality(AllMatching)

DistinctUpdatedAt == \A x, y \in AllMatching : x # y => x.at # y.at

\* The number of matching sessions that are newer than x.
Rank(x) == Cardinality({y \in AllMatching : y.at > x.at})

\* C12: for sessions with pairwise distinct updatedAt, the page of the
\* orchestrated listSessions is positions [offset, offset+limit) of all matching
\* sessions of the queried sources in descending updatedAt order, although each
\* source was only asked for its first offset+limit sessions.
C12_PageIsGlobalSlice ==
    (ListSessionsAnswered /\ DistinctUpdatedAt) =>
        LET page == op.resp.items IN
        /\ Len(page) = Min(op.limit, Max(0, Cardinality(AllMatching) - op.offset))
        /\ \A i \in 1..Len(page) :
              page[i] \in AllMatching /\ Rank(page[i]) = op.offset + i - 1

\* A second page over two sources holding four sessions of distinct updatedAt,
\* where each source was asked for fewer sessions than the sources hold together.
C12_Witness ==
    /\ ListSessionsAnswered
    /\ DistinctUpdatedAt
    /\ Len(op.active) = 2
    /\ Cardinality(AllMatching) = 4
    /\ op.offset = 2
    /\ op.limit = 1
    /\ Len(op.resp.items) = 1

SearchAnswered == op.pc = "done" /\ op.name = "searchConversations" /\ ~op.resp.rejected

\* The elements of the lists the queried sources returned to the search.
SearchReturned ==
    UNION {Range(settled[i].items) : i \in {j \in DOMAIN settled : settled[j].state = "resolved"}}

\* C13: searchConversations asks each queried source for limit results and
\* returns at most limit results, sorted non-increasing by timestamp, which are
\* the limit newest elements of the union of the returned lists, each with the
\* source tag of the source that produced it.
C13_SearchMerge ==
    SearchAnswered =>
        LET page == op.resp.items IN
        /\ \A i \in DOMAIN settled : settled[i].state = "resolved" =>
              Len(settled[i].items) = Min(op.limit, Len(store[op.active[i]]))
        /\ Len(page) = Min(op.limit, Cardinality(SearchReturned))
        /\ Cardinality(Range(page)) = Len(page)
        /\ Range(page) \subseteq SearchReturned
        /\ \A i \in 1..Len(page) : i > 1 => page[i - 1].at >= page[i].at
        /\ \A x \in Range(page), y \in SearchReturned \ Range(page) : x.at >= y.at
        /\ \A x \in Range(page) : \E i \in DOMAIN settled :
              /\ settled[i].state = "resolved"
              /\ x \in Range(settled[i].items)
              /\ x.source = op.active[i]

\* Two sources returned two results each; the two newest, one of each source,
\* are returned and the others are cut.
C13_Witness ==
    /\ SearchAnswered
    /\ AllResolved
    /\ op.limit = 2
    /\ Cardinality(SearchReturned) = 4
    /\ {op.resp.items[i].source : i \in 1..Len(op.resp.items)} = SourceTypes

Occurrences(seq, x) == Cardinality({i \in 1..Len(seq) : seq[i] = x})

\* C14: sources_searched has exactly one entry for each source whose search
\* was invoked for the query, whether it answered, returned nothing or raised,
\* and none for a source that was unavailable or excluded by the filter.
C14_SourcesSearched ==
    SearchAnswered =>
        /\ Len(op.resp.sources_searched) = Len(settled)
        /\ \A i \in DOMAIN settled : op.resp.sources_searched[i] = op.active[i]
        /\ \A s \in SourceTypes :
              Occurrences(op.resp.sources_searched, s) =
                 IF /\ s \in Range(sources)
                    /\ op.availAt[s]
                    /\ (op.filter = "all" \/ s = op.filter)
                 THEN 1 ELSE 0

\* The remote source's search raised: it is still listed, after the local one.
C14_Witness ==
    /\ SearchAnswered
    /\ op.resp.sources_searched = <<"code", "cloud">>
    /\ \E i \in DOMAIN settled : op.active[i] = "cloud" /\ settled[i].state = "rejected"
    /\ \E i \in DOMAIN settled : op.active[i] = "code" /\ settled[i].items = <<>>

(***************************************************************************)
(* Claims about getConversation and about the demoted remote source,       *)
(* checked under ToolsSpec.                                                *)
(***************************************************************************)
JustDispatched == op' # op /\ op'.pc = "pending"
JustInvoked == gc' # gc /\ gc'.pc \in {"hinted", "loop"}
NoHit == \A i \in 1..Len(gc.outcomes) : gc.outcomes[i] \in {"null", "raise"}

\* C15: once a request of the remote client got 401 or 403 (the client is
\* demoted), every later listProjects, listSessions, searchConversations and
\* getConversation call leaves the remote source out: no operation of it is
\* invoked, it is not in sources_searched, and the call returns what the local
\* source answered, without error.
C15_DemotedRemoteIsLeftOut ==
    /\ [][~available =>
            /\ JustDispatched => "cloud" \notin Range(op'.active)
            /\ JustInvoked => gc'.invoked[Len(gc'.invoked)] # "cloud"]_vars
    /\ []((op.pc = "done" /\ ~op.availAt["cloud"]) =>
            /\ ~op.resp.rejected
            /\ "cloud" \notin Invoked
            /\ "cloud" \notin Range(op.resp.sources_searched)
            /\ \A i \in DOMAIN settled : settled[i].state = "resolved" =>
                  op.resp.items = MergeResponse(op, <<settled[i].items>>).items)
    /\ []((gc.pc = "done" /\ ~gc.availAt) =>
            /\ ~gc.raised
            /\ "cloud" \notin Range(gc.invoked)
            /\ (\E i \in 1..Len(gc.outcomes) : gc.outcomes[i] = "hit") => gc.result = "code")

\* After the demotion, a session that the remote source holds and the local
\* one does not is looked up: only the local source is tried, the result is null.
C15_Witness ==
    /\ ~available
    /\ gc.pc = "done"
    /\ ~gc.availAt
    /\ gc.hint = "none"
    /\ sources = <<"cloud", "code">>
    /\ gc.cloudHolds
    /\ gc.fs = FsAbsent
    /\ gc.invoked = <<"code">>
    /\ gc.outcomes = <<"null">>
    /\ gc.result = Null

C17_LocalBeforeRemote ==
    gc.hint = "none" =>
        /\ \A i, j \in 1..Len(gc.invoked) :
              (gc.invoked[i] = "cloud" /\ gc.invoked[j] = "code") => j < i
        /\ \A j \in 1..Len(gc.invoked) : gc.invoked[j] = "cloud" =>
              \/ "code" \notin Range(sources)
              \/ \E i \in 1..Len(gc.outcomes) :
                    i < j /\ gc.invoked[i] = "code" /\ gc.outcomes[i] \in {"null", "raise"}
        /\ gc.pc = "done" =>
              IF NoHit THEN gc.result = Null
              ELSE /\ gc.outcomes[Len(gc.outcomes)] = "hit"
                   /\ \A i \in 1..(Len(gc.outcomes) - 1) : gc.outcomes[i] # "hit"
                   /\ gc.result = gc.invoked[Len(gc.outcomes)]
                   /\ Len(gc.invoked) = Len(gc.outcomes)

\* The sources list has the remote source first; the local source was asked
\* first, returned null, and the remote conversation was returned.
C17_Witness ==
    /\ gc.pc = "done"
    /\ gc.hint = "none"
    /\ sources = <<"cloud", "code">>
    /\ gc.invoked = <<"code", "cloud">>
    /\ gc.outcomes = <<"null", "hit">>
    /\ gc.result = "cloud"

\* C18: getConversation returns null and does not raise when no source holds
\* the session id, when the local projects directory is missing, and when every
\* tried source raises, both in the local source and in the orchestration layer.
C18_NotFoundIsNull ==
    /\ \A p \in {FsMissing, FsAbsent} : LocalGetConversation(p, GetOpts) = {NoConversation}
    /\ gc.pc = "done" =>
          /\ ~gc.raised
          /\ NoHit => gc.result = Null
          /\ (gc.fs \in {FsMissing, FsAbsent} /\ ~gc.cloudHolds) => gc.result = Null

\* The projects directory is missing and the remote source raised.
C18_Witness ==
    /\ gc.pc = "done"
    /\ gc.hint = "none"
    /\ gc.fs = FsMissing
    /\ gc.invoked = <<"code", "cloud">>
    /\ gc.outcomes = <<"null", "raise">>
    /\ gc.result = Null
    /\ ~gc.raised

(***************************************************************************)
(* Claims about the local source, checked under LocalSpec.                 *)
(***************************************************************************)
\* Every record of the projects directory has a valid timestamp.
ValidTimestamps ==
    \A i \in 1..Len(projectsDir.dirs) :
        \A j \in 1..Len(projectsDir.dirs[i].files) :
            \A l \in Range(projectsDir.dirs[i].files[j].lines) :
                l.kind = "json" => l.ts # NaN

FilePositions ==
    UNION {{<<i, j>> : j \in 1..Len(projectsDir.dirs[i].files)} :
              i \in 1..Len(projectsDir.dirs)}

SessionAt(p) ==
    LET d == projectsDir.dirs[p[1]]
        f == d.files[p[2]]
    IN  LocalSession(f.id, decodeProjectPath(d.name), parseJsonlFile(f.lines),
                     Len(parseJsonlFile(f.lines)))

\* The session files that listSessions is to return for the arguments of the
\* call: a .jsonl file of a project directory with at least one record, whose
\* span meets [startDate, endDate] as instants, in the project asked for.
MatchingFiles ==
    {p \in FilePositions :
        LET d == projectsDir.dirs[p[1]]
            f == d.files[p[2]]
            a == local.args
        IN  /\ projectsDir.exists
            /\ d.kind = "dir"
            /\ f.jsonl
            /\ parseJsonlFile(f.lines) # <<>>
            /\ a.startDate # NoDate => SessionAt(p).updatedAt >= InstantOf(a.startDate)
            /\ a.endDate # NoDate => SessionAt(p).createdAt <= InstantOf(a.endDate)
            /\ a.projectPath # NoPath => decodeProjectPath(d.name) = a.projectPath}

\* C19: local listSessions returns a session file if and only if it has at
\* least one record, its span [minimum, maximum record timestamp] intersects
\* [normalized startDate, normalized endDate] (each bound optional) and, when
\* projectPath is given, its decoded project path equals it; the result is
\* sorted descending by updatedAt and sliced to [offset, offset+limit).
C19_LocalListSessions ==
    (local.fn = "listSessions" /\ ValidTimestamps) =>
        LET ret == local.sessions
            a == local.args
            Newer(x) == Cardinality({p \in MatchingFiles : SessionAt(p).updatedAt > x.updatedAt})
            NotOlder(x) == Cardinality({p \in MatchingFiles : SessionAt(p).updatedAt >= x.updatedAt})
        IN  /\ Len(ret) = Min(a.limit, Max(0, Cardinality(MatchingFiles) - a.offset))
            /\ \A i \in 1..Len(ret) : i > 1 => ret[i - 1].updatedAt >= ret[i].updatedAt
            /\ \A i \in 1..Len(ret) :
                  /\ Occurrences(ret, ret[i]) <=
                        Cardinality({p \in MatchingFiles : SessionAt(p) = ret[i]})
                  /\ Newer(ret[i]) <= a.offset + i - 1
                  /\ a.offset + i - 1 < NotOlder(ret[i])

\* a >= b on the time values of two dates (false when either is NaN).
AtLeast(a, b) == a # NaN /\ b # NaN /\ a >= b

\* C20: every Session returned by an operation (here: by local listSessions,
\* and inside the conversation of local getConversation) has
\* updatedAt >= createdAt.
C20_UpdatedNotBeforeCreated ==
    /\ local.fn = "listSessions" =>
          \A i \in 1..Len(local.sessions) :
              AtLeast(local.sessions[i].updatedAt, local.sessions[i].createdAt)
    /\ (local.fn = "getConversation" /\ local.conversation # NoConversation) =>
          AtLeast(local.conversation.session.updatedAt,
                  local.conversation.session.createdAt)

(***************************************************************************)
(* Claims about getConversation of either source, checked under LocalSpec. *)
(***************************************************************************)
\* The session files that hold the session id of the call, and the first of
\* them in directory order.
HolderPositions ==
    {p \in FilePositions :
        /\ projectsDir.dirs[p[1]].kind = "dir"
        /\ projectsDir.dirs[p[1]].files[p[2]].jsonl
        /\ projectsDir.dirs[p[1]].files[p[2]].id = local.args.sessionId}

FirstHolder == CHOOSE p \in HolderPositions : \A q \in HolderPositions : p[1] <= q[1]

\* The role set asked for: messageTypes, or user and assistant by default.
RequestedRoles ==
    IF local.args.messageTypes = {} THEN DefaultTypes ELSE local.args.messageTypes

\* The records of the conversation asked for, in the order they are stored,
\* each with its timestamp and its role.
StoredMessages ==
    IF local.fn = "cloudGetConversation"
    THEN [i \in 1..Len(local.args.detail.chat_messages) |->
            [ts |-> local.args.detail.chat_messages[i].ts,
             role |-> CloudRoleOf(local.args.detail.chat_messages[i].sender)]]
    ELSE LET entries == parseJsonlFile(
                 projectsDir.dirs[FirstHolder[1]].files[FirstHolder[2]].lines)
         IN  [i \in 1..Len(entries) |->
                [ts |-> entries[i].ts, role |-> RoleOf(entries[i].type)]]

RoleFiltered ==
    LET Requested(m) == m.role \in RequestedRoles
    IN  SelectSeq(StoredMessages, Requested)

\* C21: the messages of every conversation returned by getConversation (local
\* or remote) are sorted ascending by timestamp whatever the order of the
\* records, all have a role in the requested role set (user and assistant by
\* default), and are the positions [offset, offset+limit) of that sorted,
\* role-filtered list.
C21_MessagesSortedFilteredPaged ==
    (local.fn \in {"getConversation", "cloudGetConversation"}
        /\ local.conversation # NoConversation) =>
        LET ret == local.conversation.messages
            a == local.args
            Older(x) == Cardinality({i \in 1..Len(RoleFiltered) : RoleFiltered[i].ts < x.ts})
            NotNewer(x) == Cardinality({i \in 1..Len(RoleFiltered) : RoleFiltered[i].ts <= x.ts})
        IN  /\ Len(ret) = Min(a.limit, Max(0, Len(RoleFiltered) - a.offset))
            /\ \A i \in 1..Len(ret) : i > 1 => ret[i - 1].ts <= ret[i].ts
            /\ \A i \in 1..Len(ret) :
                  /\ ret[i].role \in RequestedRoles
                  /\ Occurrences(ret, ret[i]) <= Occurrences(RoleFiltered, ret[i])
                  /\ Older(ret[i]) <= a.offset + i - 1
                  /\ a.offset + i - 1 < NotNewer(ret[i])

\* A session file whose records are stored newest first is read with the roles
\* user and system: the result record (role system) comes before the user one.
C21_Witness ==
    /\ local.fn = "getConversation"
    /\ local.args.sessionId = "s5"
    /\ local.args.messageTypes = {"user", "system"}
    /\ local.args.offset = 0
    /\ local.args.limit = 2
    /\ local.conversation # NoConversation
    /\ local.conversation.messages = <<[ts |-> 2, role |-> "system"], [ts |-> 3, role |-> "user"]>>

(***************************************************************************)
(* Claims about local search, checked under SearchSpec.                    *)
(***************************************************************************)
\* A batch of the running search starts in this step.
BatchStarts == local.pc # "batch" /\ local'.pc = "batch"

\* The batch in flight ends in this step.
BatchEnds == local.pc = "batch" /\ local'.pc # "batch"

\* The results of the files at positions from..to of the collected paths, in
\* that order.
ResultsOfFiles(from, to) ==
    BatchResults(projectsDir, SubSeq(local.filePaths, from, to), local.args)

\* What C22 asks of every step of a search.
BatchStep ==
    /\ BatchStarts =>
          /\ local'.batch # {}
          /\ Cardinality(local'.batch) <= 10
          /\ local'.batch \subseteq 1..Len(local.filePaths)
          /\ \A j \in local'.batch : j - 1 \in local'.batch \/ j = local.i + 1
          /\ local.batch = {} => 1 \in local'.batch
          /\ local.batch # {} =>
                \A j \in local.batch : j + 1 \in local.batch \/ j + 1 \in local'.batch
          /\ Cardinality(local'.batch) < 10 => Len(local.filePaths) \in local'.batch
          /\ local.completed = local.batch
          /\ Len(local.results) < local.args.limit
    /\ BatchEnds =>
          /\ local.completed = local.batch
          /\ local.batch # {}
          /\ local'.results = local.results \o
                ResultsOfFiles(CHOOSE j \in local.batch : \A k \in local.batch : j <= k,
                               CHOOSE j \in local.batch : \A k \in local.batch : j >= k)
    /\ (local.fn = "search" /\ local'.fn = "search" /\ local'.results # local.results)
          => BatchEnds

\* C22: local search processes the candidate files in consecutive batches of
\* at most 10 files, starts a batch only after every file of the previous
\* batch has completed and only if the accumulated result count is below
\* limit, and always adds the results of every file of a started batch.
C22_BatchesInTurn ==
    /\ [][BatchStep]_vars
    /\ [](local.fn = "search" /\ local.pc = "done" =>
            \/ Len(local.results) >= local.args.limit
            \/ local.results = ResultsOfFiles(1, Len(local.filePaths)))

\* The second batch of ten is in flight: the first one gave two results, one
\* below the limit, and one file of the second is done.
C22_Witness ==
    /\ local.fn = "search"
    /\ local.pc = "batch"
    /\ local.args.limit = 3
    /\ Len(local.filePaths) = 21
    /\ local.batch = 11..20
    /\ local.completed = {13}
    /\ Len(local.results) = 2

\* Two characters are the same letter, whatever their case.
SameLetter(a, b) == a = b \/ {a, b} = {"o", "O"} \/ {a, b} = {"k", "K"}

\* The positions (counted from 0) at which the query occurs in a text,
\* case-insensitively.
MatchPositions(text, q) ==
    {i \in 0..(Len(text) - Len(q)) : \A n \in 1..Len(q) : SameLetter(text[i + n], q[n])}

FirstMatch(text, q) ==
    CHOOSE i \in MatchPositions(text, q) : \A j \in MatchPositions(text, q) : i <= j

\* The date range of the call holds the instant t.
InRange(t) ==
    /\ local.args.startDate # NoDate => t >= InstantOf(local.args.startDate)
    /\ local.args.endDate # NoDate => t <= InstantOf(local.args.endDate)

\* The candidate files of the running search: the session files of the project
\* directories asked for that the file dates do not rule out.
CandidatePositions ==
    {p \in FilePositions :
        LET d == projectsDir.dirs[p[1]]
            f == d.files[p[2]]
            a == local.args
        IN  /\ d.kind = "dir"
            /\ f.jsonl
            /\ a.projectPath # NoPath => decodeProjectPath(d.name) = a.projectPath
            /\ \/ f.statFails
               \/ /\ a.endDate # NoDate => Min(f.birthtime, f.mtime) <= InstantOf(a.endDate)
                  /\ a.startDate # NoDate => f.mtime >= InstantOf(a.startDate)}

\* The matching records of the candidate files: <<directory, file, line>>.
MatchingRecords ==
    UNION {{<<p[1], p[2], n>> : n \in
                {n \in 1..Len(projectsDir.dirs[p[1]].files[p[2]].lines) :
                    LET l == projectsDir.dirs[p[1]].files[p[2]].lines[n]
                    IN  /\ l.kind = "json"
                        /\ InRange(l.ts)
                        /\ MatchPositions(extractContent(l), local.args.query) # {}}} :
           p \in CandidatePositions}

RecordAt(r) == projectsDir.dirs[r[1]].files[r[2]].lines[r[3]]

\* C23: local search returns at most limit results sorted non-increasing by
\* timestamp, and returns every matching record of the candidate files when
\* their total number is at most limit.
C23_SearchReturnsSortedPage ==
    (local.fn = "search" /\ local.pc = "done") =>
        LET ret == local.returned
        IN  /\ Len(ret) <= local.args.limit
            /\ \A i \in 1..Len(ret) : i > 1 => ret[i - 1].ts >= ret[i].ts
            /\ Cardinality(MatchingRecords) <= local.args.limit =>
                  /\ Len(ret) = Cardinality(MatchingRecords)
                  /\ \A r \in MatchingRecords :
                        \E i \in 1..Len(ret) :
                            /\ ret[i].messageId = RecordAt(r).uuid
                            /\ ret[i].sessionId = projectsDir.dirs[r[1]].files[r[2]].id
                            /\ ret[i].ts = RecordAt(r).ts

\* The four matching records of 21 files, found in three batches in the order
\* 5, 2, 9, 4, are returned newest first.
C23_Witness ==
    /\ local.fn = "search"
    /\ local.pc = "done"
    /\ local.args.limit = 4
    /\ Len(local.filePaths) = 21
    /\ [i \in 1..Len(local.results) |-> local.results[i].ts] = <<5, 2, 9, 4>>
    /\ [i \in 1..Len(local.returned) |-> local.returned[i].ts] = <<9, 5, 4, 2>>

\* The records a search reads, each with its uuid and its flattened content:
\* the lines of the session files, or the messages of the listed
\* conversations.
SearchedTexts ==
    IF local.fn = "cloudSearch"
    THEN UNION {{[uuid |-> m.uuid, text |-> extractCloudContent(m)] :
                    m \in Range(c.detail.chat_messages)} : c \in Range(local.args.listing)}
    ELSE UNION {{[uuid |-> l.uuid, text |-> extractContent(l)] :
                    l \in {x \in Range(projectsDir.dirs[p[1]].files[p[2]].lines) :
                              x.kind = "json"}} : p \in FilePositions}

TextOf(uuid) == (CHOOSE x \in SearchedTexts : x.uuid = uuid).text

\* The uuids of the records the search is to report: the matching records of
\* the candidate files, or the matching messages of the listed conversations
\* that have a detail and meet the date range.
ExpectedIds ==
    IF local.fn = "cloudSearch"
    THEN UNION {{m.uuid : m \in {x \in Range(c.detail.chat_messages) :
                    MatchPositions(extractCloudContent(x), local.args.query) # {}}} :
                c \in {x \in Range(local.args.listing) :
                        /\ x.detail.found
                        /\ local.args.startDate # NoDate =>
                              InstantOf(x.updated_at) >= InstantOf(local.args.startDate)
                        /\ local.args.endDate # NoDate =>
                              InstantOf(x.created_at) <= InstantOf(local.args.endDate)}}
    ELSE {RecordAt(r).uuid : r \in MatchingRecords}

StartsWith(text, prefix) ==
    Len(text) >= Len(prefix) /\ SubSeq(text, 1, Len(prefix)) = prefix
EndsWith(text, suffix) ==
    Len(text) >= Len(suffix) /\ SubSeq(text, Len(text) - Len(suffix) + 1, Len(text)) = suffix

\* C24: for every record whose flattened content contains the query
\* case-insensitively, search (local and remote) emits exactly one SearchResult
\* whose snippet contains the matched text, begins with '...' exactly when more
\* than 50 characters precede the first match, ends with '...' exactly when
\* more than 50 characters follow it, and is at most length(query) + 106
\* characters long. (Every record, when the search was not cut short by limit.)
C24_OneResultWithSnippet ==
    local.fn \in {"search", "cloudSearch"} =>
        LET q == local.args.query
            res == local.results
        IN  /\ \A i \in 1..Len(res) :
                  LET text == TextOf(res[i].messageId)
                      first == FirstMatch(text, q)
                      s == res[i].snippet
                  IN  /\ MatchPositions(text, q) # {}
                      /\ \A j \in 1..Len(res) : res[j].messageId = res[i].messageId => j = i
                      /\ \E k \in 1..Len(s) :
                            SubSeq(s, k, k + Len(q) - 1) = SubSeq(text, first + 1, first + Len(q))
                      /\ StartsWith(s, Ellipsis) <=> first > 50
                      /\ EndsWith(s, Ellipsis) <=> Len(text) - (first + Len(q)) > 50
                      /\ Len(s) <= Len(q) + 106
            /\ (local.pc = "done" /\ Len(res) < local.args.limit) =>
                  /\ \A id \in ExpectedIds : \E i \in 1..Len(res) : res[i].messageId = id
                  /\ Len(res) = Cardinality(ExpectedIds)
                  /\ \A i \in 1..Len(res) : \E j \in 1..Len(local.returned) :
                        local.returned[j] = res[i]

\* The record with 51 characters on each side of "ok" gives a snippet of
\* 2 + 106 characters with both marks; the one with 50 on each side is given
\* whole.
C24_Witness ==
    /\ local.fn = "search"
    /\ local.pc = "done"
    /\ \E i \in 1..Len(local.returned) :
          /\ local.returned[i].messageId = "m2"
          /\ local.returned[i].snippet =
                Ellipsis \o Repeat("a", 50) \o <<"o", "k">> \o Repeat("b", 50) \o Ellipsis
    /\ \E i \in 1..Len(local.returned) :
          /\ local.returned[i].messageId = "m1"
          /\ local.returned[i].snippet = Padded(50, <<"O", "K">>, 50)

(***************************************************************************)
(* Claims about unusable lines and a missing projects directory.           *)
(***************************************************************************)
\* The lines of a file that can be used as records: parsed, with a valid
\* timestamp.
UsableLines(file) ==
    LET Usable(l) == l.kind = "json" /\ l.ts # NaN
    IN  SelectSeq(file.lines, Usable)

\* The dates of the call are in the form toISOString prints, so that comparing
\* them as strings is comparing instants.
CanonicalDates ==
    /\ local.args.startDate.sfx \in {"none", "ms"}
    /\ local.args.endDate.sfx \in {"none", "ms"}

\* The session files listSessions is to return when the unusable lines are
\* skipped: those with a usable record whose usable records meet the date
\* range, in the project asked for.
UsableSessionFiles ==
    {p \in FilePositions :
        LET d == projectsDir.dirs[p[1]]
            f == d.files[p[2]]
            a == local.args
            times == TimesOf(UsableLines(f))
        IN  /\ projectsDir.exists
            /\ d.kind = "dir"
            /\ f.jsonl
            /\ times # <<>>
            /\ a.startDate # NoDate => MathMax(times) >= InstantOf(a.startDate)
            /\ a.endDate # NoDate => MathMin(times) <= InstantOf(a.endDate)
            /\ a.projectPath # NoPath => decodeProjectPath(d.name) = a.projectPath}

\* C25: in the local operations (here: listSessions, asked for a first page
\* that is large enough for every session) a line that cannot be parsed or
\* used as a record (invalid JSON, or an entry without a valid timestamp) is
\* skipped: the other records of the same file are still used and the sessions
\* of the other files are still returned.
C25_UnusableLinesSkipped ==
    (/\ local.fn = "listSessions"
     /\ CanonicalDates
     /\ local.args.offset = 0
     /\ Cardinality(UsableSessionFiles) <= local.args.limit) =>
        \A p \in UsableSessionFiles :
            \E i \in 1..Len(local.sessions) :
                /\ local.sessions[i].id = projectsDir.dirs[p[1]].files[p[2]].id
                /\ local.sessions[i].projectName = decodeProjectPath(projectsDir.dirs[p[1]].name)

\* C26: when the local projects directory does not exist, local listProjects,
\* listSessions and search return an empty list and local getConversation
\* returns null; none of them raises.
C26_MissingDirectoryIsEmpty ==
    ~projectsDir.exists =>
        /\ ~local.raised
        /\ local.fn = "listProjects" => local.projects = <<>>
        /\ local.fn = "listSessions" => local.sessions = <<>>
        /\ local.fn = "getConversation" => local.conversation = NoConversation
        /\ local.fn = "search" =>
              /\ local.pc \in {"sort", "done"}
              /\ local.results = <<>>
              /\ local.returned = <<>>

\* A search over a missing projects directory has returned.
C26_Witness ==
    /\ ~projectsDir.exists
    /\ local.fn = "search"
    /\ local.pc = "done"
    /\ local.args.limit = 5
    /\ local.returned = <<>>
    /\ ~local.raised

(***************************************************************************)
(* Claims about the server's tool-call handler, checked under ToolsSpec.   *)
(***************************************************************************)
\* The handler has answered the request.
Answered == request.pc = "done"

\* During the answered call a source was unavailable, raised, or returned
\* nothing.
SourceFailed ==
    \/ ~available
    \/ \E i \in DOMAIN settled : settled[i].state = "rejected"
    \/ \E i \in DOMAIN settled : settled[i].state = "resolved" /\ settled[i].items = <<>>
    \/ \E i \in 1..Len(gc.outcomes) : gc.outcomes[i] \in {"raise", "null"}

\* C27: the tool-call handler returns an error response (isError) exactly when
\* the tool name is unknown, search_conversations has no non-empty query, or
\* get_conversation has no non-empty sessionId; a source being unavailable,
\* raising or returning nothing never produces an error response.
C27_ErrorResponseOnlyForBadRequest ==
    Answered =>
        /\ request.isError <=>
              \/ request.tool \notin Tools
              \/ request.tool = "search_conversations" /\ request.query \in {Null, ""}
              \/ request.tool = "get_conversation" /\ request.sessionId \in {Null, ""}
        /\ (request.isError /\ request.tool \in Tools) => op = IdleOp /\ gc = IdleGet
        /\ (SourceFailed /\ ~request.isError) => request.tool \in Tools

\* A search with a query was answered without an error although the promise of
\* one of its two sources rejected and the remote client had been demoted.
C27_Witness ==
    /\ Answered
    /\ request.tool = "search_conversations"
    /\ request.query = "s1"
    /\ ~request.isError
    /\ Len(op.active) = 2
    /\ \E i \in DOMAIN settled : settled[i].state = "rejected"
    /\ ~available

(***************************************************************************)
(* Claims about normalizeDate, checked under DateSpec.                     *)
(***************************************************************************)
\* normalizeDate in the process of the state.
Normalized(dateString, isEndDate, timezone) ==
    normalizeDate(dateString, isEndDate, timezone, dateCall.systemZone, dateCall.parser)

\* C28: for every bare calendar day d and zone tz, normalizeDate(d, false, tz)
\* <= normalizeDate(d, true, tz) (as strings); an input that already carries a
\* time component is returned unchanged, so normalizeDate applied to its own
\* output gives the same value.
C28_StartNotAfterEnd ==
    /\ \A d \in Days, tz \in Zones \cup {Null} :
          ~StrLess(Normalized(BareDay(d), TRUE, tz), Normalized(BareDay(d), FALSE, tz))
    /\ dateCall.fn = "normalizeDate" =>
          /\ dateCall.returned.kind = "time"
          /\ dateCall.dateString.kind = "time" => dateCall.returned = dateCall.dateString
          /\ dateCall.returned =
                Normalized(dateCall.dateString, dateCall.isEndDate, dateCall.timezone)

\* The end of day 3 in New York, asked in a process in UTC, was normalized
\* twice: 03:59:59.999 of day 4 both times.
C28_Witness ==
    /\ dateCall.fn = "normalizeDate"
    /\ dateCall.renormalized
    /\ dateCall.systemZone = "UTC"
    /\ dateCall.parser = "local"
    /\ dateCall.dateString = BareDay(3)
    /\ dateCall.isEndDate
    /\ dateCall.timezone = "America/New_York"
    /\ dateCall.returned = DateTime(4 * DayMs + 4 * HourMs - 1, "ms")

\* The UTC instant at which the zone shows 00:00:00.000 (23:59:59.999 for an
\* end date) of day n.
BoundaryInstant(n, isEndDate, zone) ==
    LocalToInstant(zone, n * DayMs + (IF isEndDate THEN DayMs - 1 ELSE 0))

\* C29: for a bare calendar day and a non-UTC zone, normalizeDate returns the
\* UTC instant of local 00:00:00.000 (start) or 23:59:59.999 (end) of that day
\* in that zone, using the zone's offset on that date and independent of the
\* system zone of the process; for zone UTC it returns the day followed by
\* T00:00:00.000Z or T23:59:59.999Z.
C29_BoundaryOfTheDayInTheZone ==
    (/\ dateCall.fn = "normalizeDate"
     /\ ~dateCall.renormalized
     /\ dateCall.dateString.kind = "day") =>
        LET tz == IF dateCall.timezone = Null THEN dateCall.systemZone ELSE dateCall.timezone
        IN  dateCall.returned =
                DateTime(BoundaryInstant(dateCall.dateString.day, dateCall.isEndDate, tz), "ms")

(***************************************************************************)
(* Claims about the demoted client, checked under SessionSpec.             *)
(***************************************************************************)
\* C30: no network request is issued on a client instance after its available
\* flag has become false, including by fetchApi calls that were already in
\* progress (waiting for the rate-limit delay or in a backoff sleep) when
\* another call demoted the client.
C30_NoRequestAfterDemotion ==
    [][\A c \in Calls : Issues(c) => available]_vars

(***************************************************************************)
(* Further claims about CloudSession, checked under SessionSpec.           *)
(***************************************************************************)
IsTimeoutEv(e) == e.kind = "resp" /\ e.error \in {"TimeoutError", "AbortError"}
IsOtherFailureEv(e) ==
    /\ e.kind = "resp"
    /\ e.error = "none"
    /\ ~(e.status >= 200 /\ e.status <= 299)
    /\ e.status \notin {401, 403, 429}
EndsTheCall(e) == IsTimeoutEv(e) \/ IsOtherFailureEv(e)

\* The traced call receives, in this step, a response that is a timeout or a
\* non-success status other than 401, 403 and 429.
FailsFastStep ==
    /\ T.pc = "fetching"
    /\ Len(calls'[traced].log) > Len(T.log)
    /\ EndsTheCall(calls'[traced].log[Len(T.log) + 1])

\* C31: a fetchApi attempt that gets a non-success status other than 401, 403 and
\* 429, or that times out, ends the call with null in that very step, with no
\* backoff sleep and no further request after it, and the step leaves available
\* (and orgId) as they were.
C31_OtherFailureReturnsNullAtOnce ==
    /\ [][FailsFastStep =>
            /\ calls'[traced].pc = "returned"
            /\ calls'[traced].result.isNull
            /\ Len(calls'[traced].log) = Len(T.log) + 1
            /\ available' = available
            /\ orgId' = orgId]_vars
    /\ [](\A i \in 1..Len(T.log) :
            EndsTheCall(T.log[i]) =>
                /\ i = Len(T.log)
                /\ T.pc \in {"returned", "done"}
                /\ T.result.isNull)

\* A call whose first attempt met a 429 and whose second attempt timed out has
\* returned null on a client that is still available.
C31_Witness ==
    LET rs == Responses(T.log) IN
    /\ T.fn = "fetchApi"
    /\ T.pc = "returned"
    /\ Len(rs) = 2
    /\ Is429(rs[1])
    /\ IsTimeoutEv(rs[2])
    /\ Len(Backoffs(T.log)) = 1
    /\ T.result.isNull
    /\ available

\* The number of the attempt whose response is event i of the log (from 0).
AttemptOf(log, i) == Len(Responses(SubSeq(log, 1, i))) - 1

\* C32 (as claimed): every backoff sleep of a fetchApi call follows the response
\* to attempt k, a 429 or a retryable transport error, and lasts 2^(k+1) seconds
\* (2 s after the first attempt, 4 s after the second); and every backoff sleep
\* is followed by another attempt: the step that ends the sleep issues the next
\* request, so the call never sleeps after its final attempt.
C32_BackoffThenNextAttempt ==
    /\ [](\A i \in 1..Len(T.log) :
            IsBackoff(T.log[i]) =>
                /\ i > 1
                /\ Is429(T.log[i - 1]) \/ IsRetryableErrorEv(T.log[i - 1])
                /\ T.log[i].ms = (2 ^ (AttemptOf(T.log, i) + 1)) * 1000)
    /\ [][(T.pc = "backoff" /\ calls'[traced].pc # "backoff") => Issues(traced)]_vars

\* Call c, a getOrgId call, gets in this step a parsed 200 answer from the
\* organizations endpoint.
OrgRequestSucceeds(c) ==
    /\ calls[c].fn = "getOrgId"
    /\ calls[c].pc = "fetching"
    /\ calls'[c].pc = "returned"
    /\ ~calls'[c].result.isNull

\* Call c holds a successful answer of the organizations endpoint.
HoldsOrgAnswer(c) ==
    /\ calls[c].fn = "getOrgId"
    /\ calls[c].pc = "returned"
    /\ ~calls[c].result.isNull

\* Call c is a getOrgId call that starts in this step.
GetOrgIdStarts(c) ==
    /\ calls'[c].fn = "getOrgId"
    /\ calls'[c] # calls[c]
    /\ Finished(c)

\* C33 (as claimed): once orgId is set it never changes; a getOrgId call made
\* with orgId set returns it without a network request; and at most one
\* successful request to the organizations endpoint is made on an instance: a
\* successful answer arrives only while orgId is unset and no other call holds
\* one, also with several getOrgId calls in progress.
C33_DiscoveryOnce ==
    /\ [][orgId # Null => orgId' = orgId]_vars
    /\ [][\A c \in Calls :
            (GetOrgIdStarts(c) /\ orgId # Null) =>
                /\ ~Issues(c)
                /\ calls'[c].pc \in {"idle", "done"}
                /\ c = traced => calls'[c].ret = orgId]_vars
    /\ [][\A c \in Calls :
            OrgRequestSucceeds(c) =>
                /\ orgId = Null
                /\ \A d \in Calls \ {c} : ~HoldsOrgAnswer(d)]_vars

\* Call c is a getOrgId call whose organizations request has come back with no
\* organization (null, or an empty list) and that resumes in this step.
ResumesWithoutOrg(c) ==
    /\ calls[c].fn = "getOrgId"
    /\ calls[c].pc = "returned"
    /\ calls[c].result.isNull \/ Len(calls[c].result.body) = 0
    /\ calls'[c] # calls[c]

\* Call c (a getOrgId or a fetchApi call) starts in this step.
CallStarts(c) ==
    /\ Finished(c)
    /\ calls'[c] # calls[c]

\* C34: when getOrgId has no cached id and its organizations request yields no
\* organization (an empty list, a non-authorization HTTP error, a timeout, or the
\* attempts used up), the step in which getOrgId resumes sets available to false
\* and getOrgId returns null; a getOrgId call never returns null on a client it
\* leaves available. Every call made on the client once it is unavailable ends
\* without a network request and with null, so each remote operation (listProjects,
\* listSessions, getConversation, search), which reaches the network through
\* getOrgId and fetchApi only, returns its empty value.
C34_NoOrganizationDemotes ==
    /\ [][\A c \in Calls :
            ResumesWithoutOrg(c) =>
                /\ available' = FALSE
                /\ c = traced => (calls'[c].pc = "done" /\ calls'[c].ret = Null)]_vars
    /\ []((T.fn = "getOrgId" /\ T.pc = "done" /\ T.ret = Null) => ~available)
    /\ [][\A c \in Calls :
            (CallStarts(c) /\ ~available) =>
                /\ ~Issues(c)
                /\ calls'[c].pc \notin {"ratewait", "fetching", "backoff"}
                /\ available' = FALSE]_vars
    /\ []((T.pc \in {"returned", "done"} /\ ~T.startAvail) =>
                /\ T.log = <<>>
                /\ T.result.isNull
                /\ \A fn \in RemoteOps, org \in OrgIds \cup {Null} :
                        RemoteReturns(fn, org, T.result) = RemoteEmpty(fn))

\* getOrgId used up its three attempts on network errors, demoted the client and
\* returned null; no orgId was cached.
C34_Witness ==
    /\ T.fn = "getOrgId"
    /\ T.pc = "done"
    /\ T.ret = Null
    /\ T.startAvail
    /\ Exhausted(T.log)
    /\ \A i \in 1..3 : IsRetryableErrorEv(Responses(T.log)[i])
    /\ ~available
    /\ orgId = Null

(***************************************************************************)
(* Further claims about the local source, checked under SearchSpec.        *)
(***************************************************************************)
\* The .jsonl files the search in progress looks at.
CandidateFiles == {FileAt(projectsDir, local.filePaths[k]) : k \in 1..Len(local.filePaths)}

\* Every record of the file was written between min(birthtime, mtime) and mtime.
WithinFileTimes(file) ==
    \/ file.statFails
    \/ \A k \in 1..Len(file.lines) :
          file.lines[k].kind = "json" =>
              /\ file.lines[k].ts # NaN
              /\ Min(file.birthtime, file.mtime) <= file.lines[k].ts
              /\ file.lines[k].ts <= file.mtime

\* The condition of the claim, on the instants.
SkipExpected(file, startDate, endDate) ==
    /\ ~file.statFails
    /\ \/ endDate # NoDate /\ Min(file.birthtime, file.mtime) > InstantOf(endDate)
       \/ startDate # NoDate /\ file.mtime < InstantOf(startDate)

\* The results of a file that is parsed whatever its times.
FileParsed(file, args) ==
    LET entries == parseJsonlFileBetween(file.lines, args.startDate, args.endDate)
        queryLower == toLowerCase(args.query)
        Matches(e) == includes(toLowerCase(extractContent(e)), queryLower)
        hits == SelectSeq(entries, Matches)
    IN  [k \in 1..Len(hits) |->
            SearchResult(file.id, hits[k].uuid,
                         Snippet(extractContent(hits[k]), args.query), hits[k].ts)]

RECURSIVE BatchParsed(_, _, _)
BatchParsed(fs, paths, args) ==
    IF paths = <<>> THEN <<>>
    ELSE FileParsed(FileAt(fs, Head(paths)), args) \o BatchParsed(fs, Tail(paths), args)

RECURSIVE ParseEveryFile(_, _, _, _, _)
\* The same loop over the batches, every candidate file parsed.
ParseEveryFile(fs, paths, i, results, args) ==
    IF i >= Len(paths) \/ Len(results) >= args.limit THEN results
    ELSE ParseEveryFile(fs, paths, i + FILE_CONCURRENCY,
            results \o BatchParsed(fs, SubSeq(paths, i + 1,
                                              Min(i + FILE_CONCURRENCY, Len(paths))), args),
            args)

ParseEverySearch ==
    {Slice(sorted, 0, local.args.limit) :
        sorted \in SortResults(ParseEveryFile(projectsDir, local.filePaths, 0, <<>>,
                                              local.args))}

TimesInvoked(s) == Cardinality({i \in 1..Len(gc.invoked) : gc.invoked[i] = s})

\* C36 (as claimed): one orchestrated getConversation call invokes
\* getConversation on each source at most once, with or without a source hint,
\* also when the hinted source returns null or raises.
C36_EachSourceAtMostOnce ==
    \A s \in SourceTypes : TimesInvoked(s) <= 1

\* C37 (as claimed): in a listSessions response has_more is true whenever the
\* queried sources hold matching sessions ranked after the returned page, also
\* when one source alone is queried and holds more than offset + limit of them.
C37_HasMoreWhenSessionsRemain ==
    (ListSessionsAnswered /\ Cardinality(AllMatching) > op.offset + op.limit) =>
        op.resp.has_more

\* The directory of the projects directory that holds the session file id.
DirsHolding(id) ==
    {i \in 1..Len(projectsDir.dirs) :
        /\ projectsDir.dirs[i].kind = "dir"
        /\ \E j \in 1..Len(projectsDir.dirs[i].files) : projectsDir.dirs[i].files[j].id = id}

\* A session belongs to the project of a path, or of an id.
SessionInPath(x, projectPath) == x.source = "code" /\ x.projectName = projectPath
SessionInProject(x, projectId) == x.projectId = projectId

\* A search result belongs to the project of a path: it comes from a session
\* file of a directory of that project.
ResultInPath(r, projectPath) ==
    /\ r.source = "code"
    /\ \E i \in DirsHolding(r.sessionId) :
          decodeProjectPath(projectsDir.dirs[i].name) = projectPath

ListedSessions == local.fn \in {"listSessions", "cloudListSessions"}
SearchedResults == local.fn \in {"search", "cloudSearch"} /\ local.pc = "done"

\* C38 (as claimed): what a source returns to listSessions or to a search called
\* with a projectPath or a projectId belongs to that project, for the local and
\* for the remote source alike (the orchestration hands the same options to
\* every source it queries and merges what they return).
C38_ProjectFilterHolds ==
    /\ (ListedSessions /\ local.args.projectPath # NoPath) =>
          \A i \in 1..Len(local.sessions) :
              SessionInPath(local.sessions[i], local.args.projectPath)
    /\ (ListedSessions /\ local.args.projectId # NoProjectId) =>
          \A i \in 1..Len(local.sessions) :
              SessionInProject(local.sessions[i], local.args.projectId)
    /\ (SearchedResults /\ local.args.projectPath # NoPath) =>
          \A i \in 1..Len(local.returned) :
              ResultInPath(local.returned[i], local.args.projectPath)

\* The project directories that can be examined, and their session files.
ReadableDirs == {i \in 1..Len(projectsDir.dirs) : projectsDir.dirs[i].kind = "dir"}
SessionFilesOf(i) ==
    {j \in 1..Len(projectsDir.dirs[i].files) : projectsDir.dirs[i].files[j].jsonl}

\* The session files of the examinable directories of a decoded path whose own
\* stat succeeds.
StatableSessions(decodedPath) ==
    UNION {{projectsDir.dirs[i].files[j].id :
                j \in {k \in SessionFilesOf(i) : ~projectsDir.dirs[i].files[k].statFails}} :
           i \in {k \in ReadableDirs :
                    decodeProjectPath(projectsDir.dirs[k].name) = decodedPath}}

\* The session files listSessions is asked for when no date is given: those of
\* the examinable directories of the project asked for that hold a record.
ListableSessions ==
    UNION {{<<i, j>> : j \in {k \in SessionFilesOf(i) :
                                parseJsonlFile(projectsDir.dirs[i].files[k].lines) # <<>>}} :
           i \in {k \in ReadableDirs :
                    local.args.projectPath # NoPath =>
                        decodeProjectPath(projectsDir.dirs[k].name) = local.args.projectPath}}

\* C39 (as claimed): in local listProjects and listSessions a filesystem error
\* on one project directory or one session file removes that entry only: every
\* other project is returned with its other session files counted, and every
\* session of the other directories is listed, those later in the traversal
\* included.
C39_ErrorRemovesOneEntryOnly ==
    /\ (local.fn = "listProjects" /\ projectsDir.exists) =>
          \A i \in ReadableDirs :
              \E k \in 1..Len(local.projects) :
                  /\ local.projects[k].name = decodeProjectPath(projectsDir.dirs[i].name)
                  /\ local.projects[k].sessionCount
                        >= Cardinality(StatableSessions(local.projects[k].name))
    /\ (local.fn = "listSessions" /\ projectsDir.exists
            /\ local.args.startDate = NoDate /\ local.args.endDate = NoDate) =>
          Len(local.sessions)
              = Min(local.args.limit,
                    Max(0, Cardinality(ListableSessions) - local.args.offset))

====
